---- MODULE Spec2Model ----
(***************************************************************************)
(* Model of the forge-synchronisation core of nim65s/dashboard:            *)
(*   - the webhook relay of src/gh/views.py (webhook, gl_webhook and the   *)
(*     push, pull_request, check_suite and pipeline handlers) acting on    *)
(*     the datastore and on the local git mirror of a project;             *)
(*   - the contributor identity resolver of src/rainboard/models.py        *)
(*     (get_contributor, merge_contributors).                              *)
(*                                                                         *)
(* A '/'-separated git name is a sequence of its components, so that       *)
(* f'{a}/{b}' is a \o b.  A commit id is a number in 1..MaxSha; the        *)
(* all-zero SHA of a branch deletion is 0.  Every handler is one action;   *)
(* the calls it makes on the git mirror and on the GitLab API are logged,  *)
(* in order, in last.calls.                                                *)
(***************************************************************************)
EXTENDS Integers, Sequences, FiniteSets, TLC

VARIABLES
    namespaces,    \* Namespace rows: the set of their slugs
    projects,      \* Project rows: records [slug, main_namespace]
    checkSuites,   \* GithubCheckSuite rows: the set of their ids
    mirror,        \* the on-disk git mirror of the project
    last,          \* the last operation: its input, response, calls and pre-state
    contributors,  \* Contributor rows: the set of their ids
    cnames,        \* ContributorName rows: name -> [contributor: an id or Null]
    cmails,        \* ContributorMail rows: mail -> [contributor, invalid]
    nextId,        \* next auto-increment id of the Contributor table
    watched,       \* history: one mail, any one, picked to be followed
    resolved,      \* history: the names get_contributor was called with for `watched`
    ci,            \* the CI rows of one Repo: CIBuild, CIJob, their Branch rows, an Image
    db,            \* the rows of the reconciliation: Project, Namespace, Repo
    client,        \* the last call of api_req: its arguments, the network, its end
    pager,         \* the last call of api_list: the provider's pages, what was requested and yielded
    cycle,         \* the Repo row of a remote and the last update run on it: its calls, in order
    branchRow,     \* one Branch row and the last Branch.update run on it
    history,       \* a commit graph, two of its commits and the last ahead/behind counts between them
    repoTable,     \* the Repo table of a project: rows with ids, the main pair, the last operation
    depTable,      \* the Dependency rows, the build names of the projects and the last manifest read
    named,         \* a Project row's name, as given and as stored after each save
    branchNames,   \* the Branch rows, Repo rows and local branches of a project, and the last call on them
    links,         \* the Contributor.projects rows: pairs <<contributor, project>>
    race,          \* two get_contributor calls in flight: the store, the pair, and each call's local rows and remaining operations
    ordering       \* ordered_projects: the Project and Dependency rows it reads, and its loop

hookVars == <<namespaces, projects, checkSuites, mirror>>
contribVars == <<contributors, cnames, cmails, nextId, watched, resolved>>
ciVars == <<ci>>
reconVars == <<db>>
clientVars == <<client>>
pagerVars == <<pager>>
cycleVars == <<cycle>>
branchVars == <<branchRow>>
historyVars == <<history>>
tableVars == <<repoTable>>
depVars == <<depTable>>
nameVars == <<named>>
namingVars == <<branchNames>>
linkVars == <<links>>
raceVars == <<race>>
orderVars == <<ordering>>
vars == <<namespaces, projects, checkSuites, mirror, last, contributors, cnames, cmails, nextId, watched, resolved,
          ci, db, client, pager, cycle, branchRow, history, repoTable, depTable, named, branchNames, links, race, ordering>>

(* ------------------------------ bounds --------------------------------- *)
MaxSha == 2
MaxNames == 2
MaxMails == 2
MaxBuildId == 2
MaxPage == 3
MaxCommit == 6
MaxRepoId == 4

ZeroSha == 0
Shas == 1..MaxSha
\* a NULL contributor foreign key (ids start at 1)
Null == 0

(* ------------------------- finite maps --------------------------------- *)
Has(f, k) == k \in DOMAIN f
Put(f, k, v) == [x \in (DOMAIN f) \cup {k} |-> IF x = k THEN v ELSE f[x]]
Del(f, k) == [x \in (DOMAIN f) \ {k} |-> f[x]]
EmptyMap == [x \in {} |-> 0]

(* --------------------------- the inputs -------------------------------- *)
Owners == {"Gepetto", "stranger", "ghost"}
HeadLogins == {"gepetto", "fork"}
BranchNames == {<<"x">>}
PRNumbers == {"7"}
SuiteIds == {41, 42}

\* autoslug's slugify, on the names the requests carry: lower-cases.
slugify(s) ==
    CASE s = "Gepetto" -> "gepetto"
      [] s = "Proj" -> "proj"
      [] OTHER -> s

(* ------------------------ the git mirror -------------------------------- *)
\* A mirror that is not on disk yet.
NoMirror == [exists |-> FALSE, remotes |-> {}, heads |-> EmptyMap, refs |-> EmptyMap]

\* What a fetch can meet: the remote is unreachable (GitCommandError), or it
\* has some branches, each with a tip.
FetchResults ==
    {[ok |-> FALSE, tips |-> EmptyMap]} \cup
    {[ok |-> TRUE, tips |-> t] : t \in UNION {[D -> Shas] : D \in SUBSET BranchNames}}

\* The handlers thread g = [m |-> mirror, calls |-> log of the calls made].
Log(g, call) == [g EXCEPT !.calls = Append(@, call)]

\* Project.git(): open the project's mirror, initialising an empty one when
\* the directory does not exist.
ProjectGit(g) ==
    IF g.m.exists THEN g
    ELSE Log([g EXCEPT !.m = [NoMirror EXCEPT !.exists = TRUE]], [op |-> "init"])

\* remote.fetch(): every branch of the remote moves its remote-tracking ref;
\* a tracking ref whose branch is gone upstream stays (no pruning).
RemoteFetch(g, remote, res) ==
    LET new == {<<remote, n>> : n \in DOMAIN res.tips}
        refs == [k \in (DOMAIN g.m.refs) \cup new |->
                    IF k \in new THEN res.tips[k[2]] ELSE g.m.refs[k]]
    IN  Log([g EXCEPT !.m.refs = refs], [op |-> "fetch", remote |-> remote, tips |-> res.tips])

CreateRemote(g, remote, url) ==
    Log([g EXCEPT !.m.remotes = @ \cup {remote}], [op |-> "create_remote", remote |-> remote, url |-> url])

\* git_repo.create_head(name, commit=sha)
CreateHead(g, name, sha) ==
    Log([g EXCEPT !.m.heads = Put(@, name, sha)], [op |-> "create_head", head |-> name, sha |-> sha])

\* git_repo.branches[name].commit = sha
SetHeadCommit(g, name, sha) ==
    Log([g EXCEPT !.m.heads = Put(@, name, sha)], [op |-> "set_commit", head |-> name, sha |-> sha])

\* git_repo.delete_head(name, force=True)
DeleteHead(g, name) ==
    Log([g EXCEPT !.m.heads = Del(@, name)], [op |-> "delete_head", head |-> name])

\* remote.push(name): the call is issued.  What it does to the remote is
\* what the next fetch of that remote reports.
RemotePush(g, remote, name) ==
    Log(g, [op |-> "push", remote |-> remote, ref |-> name])

\* requests.delete(gitlab.api_url() + '/projects/ns%2Fprj/repository/branches/b')
ApiDeleteBranch(g, ns, prj, name) ==
    Log(g, [op |-> "api_delete", project |-> <<ns, prj>>, branch |-> name])

\* The outcome of a request: the response status, the mirror and the
\* check-suite rows it leaves, the calls it made, and the handler it ran.
Outcome(status, g, suites) ==
    [status |-> status, mirror |-> g.m, suites |-> suites, calls |-> g.calls, handler |-> "none"]

\* The outcome of a request that was dispatched to handler h.
Ran(h, o) == [o EXCEPT !.handler = h]

\* A project lookup that finds a project whatever the namespace.
ProjectFoundAnywhere(owner, name) ==
    \E p \in projects : p.slug = slugify(name)

\* get_object_or_404(Namespace, slug=...) then
\* get_object_or_404(Project, main_namespace=namespace, slug=...)
NamespaceFound(owner) == slugify(owner) \in namespaces
ProjectFound(owner, name) ==
    [slug |-> slugify(name), main_namespace |-> slugify(owner)] \in projects

(* ------------------------- the push handler ----------------------------- *)
\* data['ref'][11:]: strips 'refs/heads/'
StripRefsHeads(ref) == SubSeq(ref, 3, Len(ref))

\* data['after'] == "0000000000000000000000000000000000000000"
IsBranchDeleted(after) == after = ZeroSha

\* for ref in [gh_ref_s, gl_ref_s, ref_s]
RefsToDelete(gh_ref_s, gl_ref_s, ref_s) == <<gh_ref_s, gl_ref_s, ref_s>>

\* the loop of the deletion: delete those of the refs that are local branches
RECURSIVE DeleteHeads(_, _)
DeleteHeads(g, refs) ==
    IF refs = <<>> THEN g
    ELSE LET ref == Head(refs)
             g1 == IF Has(g.m.heads, ref) THEN DeleteHead(g, ref) ELSE g
         IN  DeleteHeads(g1, Tail(refs))

\* A check of the fetched tip that never objects.
WrongCommitNever(tip, after) == FALSE

\* str(gh_ref.commit) != data['after']
WrongCommit(tip, after) == tip # after

\* A branch update that creates but never moves.
CreateOnly(g, name, sha) ==
    IF Has(g.m.heads, name) THEN g ELSE CreateHead(g, name, sha)

\* if name in git_repo.branches: ....commit = sha  else: create_head(name, sha)
CreateOrMove(g, name, sha) ==
    IF Has(g.m.heads, name) THEN SetHeadCommit(g, name, sha) ELSE CreateHead(g, name, sha)

\* A condition that pushes whatever GitLab has.
GitlabAlwaysPush(g, gl_remote_s, ref_s, after) == TRUE

\* ref_s not in gl_remote.refs or str(gl_remote.refs[ref_s].commit) != data['after']
GitlabNeedsPush(g, gl_remote_s, ref_s, after) ==
    \/ ~Has(g.m.refs, <<gl_remote_s, ref_s>>)
    \/ g.m.refs[<<gl_remote_s, ref_s>>] # after

\* The part of push after the GitHub remote was fetched and its ref found.
PushSync(g, data, ns, ref_s, ghRef, glFetch) ==
    LET gh_remote_s == <<"github", ns>>
        gl_remote_s == <<"gitlab", ns>>
        gh_ref_s == gh_remote_s \o ref_s
        gl_ref_s == gl_remote_s \o ref_s
    IN  IF IsBranchDeleted(data.after)
        THEN LET g1 == DeleteHeads(g, RefsToDelete(gh_ref_s, gl_ref_s, ref_s))
                 g2 == ApiDeleteBranch(g1, ns, slugify(data.name), ref_s)
             IN  Outcome(200, g2, checkSuites)
        ELSE IF WrongCommit(ghRef, data.after)
        THEN Outcome(400, g, checkSuites)
        ELSE LET g1 == CreateOrMove(g, gh_ref_s, data.after)
                 g2 == CreateOrMove(g1, ref_s, data.after)
             IN  IF gl_remote_s \notin g2.m.remotes
                 THEN Outcome(200, g2, checkSuites)
                 ELSE LET g3 == CreateOrMove(g2, gl_ref_s, data.after)
                      IN  IF ~glFetch.ok
                          THEN Outcome(500, g3, checkSuites)
                          ELSE LET g4 == RemoteFetch(g3, gl_remote_s, glFetch)
                                   g5 == IF GitlabNeedsPush(g4, gl_remote_s, ref_s, data.after)
                                         THEN RemotePush(g4, gl_remote_s, ref_s)
                                         ELSE g4
                               IN  Outcome(200, g5, checkSuites)

\* push(request, rep): someone pushed on github.  A 404 is the not-found of
\* get_object_or_404; a 500 is an exception no one catches (IndexError of
\* remotes[...] or refs[...], GitCommandError of a fetch).
push(data, ghFetch, glFetch) ==
    LET g0 == [m |-> mirror, calls |-> <<>>]
        ns == slugify(data.owner)
        ref_s == StripRefsHeads(data.ref)
        gh_remote_s == <<"github", ns>>
    IN  IF ~NamespaceFound(data.owner) \/ ~ProjectFound(data.owner, data.name)
        THEN Outcome(404, g0, checkSuites)
        ELSE LET g1 == ProjectGit(g0)
             IN  IF gh_remote_s \notin g1.m.remotes
                 THEN Outcome(500, g1, checkSuites)
                 ELSE IF ~ghFetch.ok
                 THEN Outcome(500, g1, checkSuites)
                 ELSE LET g2 == RemoteFetch(g1, gh_remote_s, ghFetch)
                      IN  IF ~Has(g2.m.refs, <<gh_remote_s, ref_s>>)
                          THEN Outcome(500, g2, checkSuites)
                          ELSE PushSync(g2, data, ns, ref_s,
                                        g2.m.refs[<<gh_remote_s, ref_s>>], glFetch)

(* --------------------- the pull_request handler ------------------------- *)
\* branch = f'pr/{data["number"]}'
PRBranch(number) == <<"pr", number>>

\* if branch in git_repo.branches: git_repo.heads[branch] = commit
\* else: git_repo.create_head(branch, commit=commit)
\* git_repo.heads is a list (GitPython's IterableList, which has no
\* __setitem__ of its own): an item assignment with a str index raises
\* TypeError and moves nothing.  create_head raises GitCommandError when the
\* fetch did not bring the commit.  The result is [ok, g].
SetPRBranch(g, branch, commit, shaKnown) ==
    IF Has(g.m.heads, branch)
    THEN [ok |-> FALSE, g |-> g]
    ELSE IF ~shaKnown
    THEN [ok |-> FALSE, g |-> g]
    ELSE [ok |-> TRUE, g |-> CreateHead(g, branch, commit)]

\* pull_request(request, rep)
pull_request(data, headFetch, shaKnown) ==
    LET g0 == [m |-> mirror, calls |-> <<>>]
        ns == slugify(data.owner)
        remote_s == <<"github", data.head_login>>
        branch == PRBranch(data.number)
        gl_remote_s == <<"gitlab", ns>>
    IN  IF ~NamespaceFound(data.owner) \/ ~ProjectFound(data.owner, data.name)
        THEN Outcome(404, g0, checkSuites)
        ELSE LET g1 == ProjectGit(g0)
                 g2 == IF remote_s \notin g1.m.remotes
                       THEN CreateRemote(g1, remote_s, data.clone_url)
                       ELSE g1
             IN  IF ~headFetch.ok
                 THEN Outcome(500, g2, checkSuites)
                 ELSE LET g3 == RemoteFetch(g2, remote_s, headFetch)
                          set == SetPRBranch(g3, branch, data.head_sha, shaKnown)
                      IN  IF ~set.ok
                          THEN Outcome(500, set.g, checkSuites)
                          ELSE IF gl_remote_s \notin set.g.m.remotes
                          THEN Outcome(500, set.g, checkSuites)
                          ELSE Outcome(200, RemotePush(set.g, gl_remote_s, branch), checkSuites)

(* ------------------ the check_suite and pipeline handlers ---------------- *)
\* A handler that keeps the row of the delivered id and no other.
check_suite_replacing(data) ==
    Outcome(200, [m |-> mirror, calls |-> <<>>], {data.id})
\* check_suite(request, rep): GithubCheckSuite.objects.get_or_create(id=...)
check_suite(data) ==
    Outcome(200, [m |-> mirror, calls |-> <<>>], checkSuites \cup {data.id})

\* pipeline(request, rep): resolves the project and prints
pipeline(data) ==
    LET g0 == [m |-> mirror, calls |-> <<>>]
    IN  IF ~NamespaceFound(data.owner) \/ ~ProjectFound(data.owner, data.name)
        THEN Outcome(404, g0, checkSuites)
        ELSE Outcome(200, g0, checkSuites)

(* ----------------------- source verification ---------------------------- *)
\* A header that may be missing: <<>> when missing, <<value>> when present.
Missing == <<>>
Present(v) == <<v>>

\* ip_address(a) in ip_network(net): a network is an aligned block of
\* `size` addresses (a power of two) that holds `base`.
InNetwork(a, net) == (a \div net.size) = (net.base \div net.size)

\* The 'hooks' networks that https://api.github.com/meta publishes.
GithubHooks == {[base |-> 8, size |-> 4]}
\* The static internal network of dashboard.middleware.ip_laas.
LaasNetwork == [base |-> 4, size |-> 2]

\* settings.GITHUB_WEBHOOK_KEY and settings.GITLAB_WEBHOOK_KEY
GITHUB_WEBHOOK_KEY == "github-secret"
GITLAB_WEBHOOK_KEY == "gitlab-secret"

\* hmac.new(key, msg=body, digestmod=sha1).hexdigest(): a digest is equal to
\* another only when it was made with the same key over the same body.
HmacSha1(key, body) == [key |-> key, msg |-> body]

\* any(ip_address(forwarded_for) in ip_network(net) for net in networks)
FromGithub(req) == \E net \in GithubHooks : InNetwork(req.fwd[1], net)

\* ip_laas(request)
ip_laas(req) == req.fwd # Missing /\ InNetwork(req.fwd[1], LaasNetwork)

\* A comparison that lets every digest through.
SignatureMatchesAny(req, signature) == TRUE

\* hmac.compare_digest(mac.hexdigest(), signature)
SignatureMatches(req, signature) == HmacSha1(GITHUB_WEBHOOK_KEY, req.body) = signature

\* A token check that objects to nothing.
WrongTokenNever(token) == FALSE

\* token != settings.GITLAB_WEBHOOK_KEY
WrongToken(token) == token # GITLAB_WEBHOOK_KEY

\* The response of a request that ran no handler.
NoHandler(status) == Outcome(status, [m |-> mirror, calls |-> <<>>], checkSuites)

\* request.META.get('HTTP_X_GITHUB_EVENT', 'ping')
EventOf(req) == IF req.event = Missing THEN "ping" ELSE req.event[1]

(* ---------------------- the two webhook endpoints ------------------------ *)
\* The event dispatch of webhook.  `io` holds what the outside world answers
\* to the handler: the fetches, and whether the fetch of the head repository
\* brought the commit of the pull request.
GithubDispatch(req, io) ==
    LET event == EventOf(req)
    IN  CASE event = "ping" -> NoHandler(200)
          [] event = "push" -> Ran("push", push(req.body, io.ghFetch, io.glFetch))
          [] event = "check_suite" -> Ran("check_suite", check_suite(req.body))
          [] event = "pull_request" -> Ran("pull_request", pull_request(req.body, io.headFetch, io.shaKnown))
          [] OTHER -> NoHandler(403)

\* An endpoint that compares the digest before it looks at the algorithm.
webhook_digest_first(req, io) ==
    IF req.fwd = Missing THEN NoHandler(500)
    ELSE IF ~FromGithub(req) THEN NoHandler(302)
    ELSE IF req.sig = Missing THEN NoHandler(302)
    ELSE IF Len(req.sig[1]) # 2 THEN NoHandler(500)
    ELSE LET algo == req.sig[1][1]
             signature == req.sig[1][2]
         IN  IF ~SignatureMatches(req, signature) THEN NoHandler(403)
             ELSE IF algo # "sha1" THEN NoHandler(501)
             ELSE GithubDispatch(req, io)
\* webhook(request).  ip_address(None) and the unpacking of a signature that
\* does not split in two on '=' raise ValueError: a 500.
webhook(req, io) ==
    IF req.fwd = Missing THEN NoHandler(500)
    ELSE IF ~FromGithub(req) THEN NoHandler(302)
    ELSE IF req.sig = Missing THEN NoHandler(302)
    ELSE IF Len(req.sig[1]) # 2 THEN NoHandler(500)
    ELSE LET algo == req.sig[1][1]
             signature == req.sig[1][2]
         IN  IF algo # "sha1" THEN NoHandler(501)
             ELSE IF ~SignatureMatches(req, signature) THEN NoHandler(403)
             ELSE GithubDispatch(req, io)

\* gl_webhook(request)
gl_webhook(req) ==
    IF ~ip_laas(req) THEN NoHandler(302)
    ELSE IF req.token = Missing THEN NoHandler(302)
    ELSE IF WrongToken(req.token[1]) THEN NoHandler(403)
    ELSE LET event == EventOf(req)
         IN  CASE event = "ping" -> NoHandler(200)
               [] event = "Pipeline Hook" -> Ran("pipeline", pipeline(req.body))
               [] OTHER -> NoHandler(403)

(* ---------------------- the contributor resolver ----------------------- *)
\* Author names and mails of the commit logs.  The mail <<"nobody", 0>> is
\* one that the mail heuristic classifies invalid.
Names == 1..MaxNames
Mails == {<<"user", i>> : i \in 1..MaxMails} \cup {<<"nobody", 0>>}

\* utils.invalid_mail(mail): a static check of the form of the address
invalid_mail(mail) == mail[1] # "user"

\* The contributor store: c = [contributors, cnames, cmails, nextId]
Store == [contributors |-> contributors, cnames |-> cnames, cmails |-> cmails, nextId |-> nextId]

\* model.objects.filter(contributor_id__in=ids): instance.contributor_id = main
Repoint(rows, ids, main) ==
    [k \in DOMAIN rows |-> IF rows[k].contributor \in ids
                           THEN [rows[k] EXCEPT !.contributor = main]
                           ELSE rows[k]]

\* A merge that keeps the highest id.
MaxId(ids) == CHOOSE i \in ids : \A j \in ids : i >= j

\* main = min(ids)
MinId(ids) == CHOOSE i \in ids : \A j \in ids : i <= j

\* merge_contributors(*contributors): [store, ret]
merge_contributors(c, ids) ==
    LET main == MinId(ids)
        c1 == [c EXCEPT !.cnames = Repoint(@, ids, main), !.cmails = Repoint(@, ids, main)]
        gone == ids \ {main}
        \* Contributor.objects.filter(id__in=ids).exclude(id=main).delete():
        \* the rows still linked to a deleted Contributor go with it (CASCADE)
        c2 == [c1 EXCEPT !.contributors = @ \ gone,
                         !.cnames = [k \in {x \in DOMAIN @ : @[x].contributor \notin gone} |-> @[k]],
                         !.cmails = [k \in {x \in DOMAIN @ : @[x].contributor \notin gone} |-> @[k]]]
    IN  [store |-> c2, ret |-> main]

\* A resolver that allocates a Contributor whenever a row was created.
LinkCreatedAlways(c, name, mail, name_created, mail_created) ==
    [store |-> [c EXCEPT !.contributors = @ \cup {c.nextId},
                         !.nextId = @ + 1,
                         !.cnames[name].contributor = c.nextId,
                         !.cmails[mail].contributor = c.nextId],
     ret |-> c.nextId]

\* A resolver that leaves the rows it created without a Contributor.
LinkCreatedNowhere(c, name, mail, name_created, mail_created) ==
    [store |-> c, ret |-> Null]

\* The branch of get_contributor when a row was created by the call.
LinkCreated(c, name, mail, name_created, mail_created) ==
    LET c1 == IF name_created /\ mail_created
              THEN [c EXCEPT !.contributors = @ \cup {c.nextId},
                             !.nextId = @ + 1,
                             !.cnames[name].contributor = c.nextId,
                             !.cmails[mail].contributor = c.nextId]
              ELSE c
        c2 == IF mail_created
              THEN [c1 EXCEPT !.cmails[mail].contributor = c1.cnames[name].contributor]
              ELSE c1
        c3 == IF name_created
              THEN [c2 EXCEPT !.cnames[name].contributor = c2.cmails[mail].contributor]
              ELSE c2
    IN  [store |-> c3,
         ret |-> IF name_created THEN c2.cmails[mail].contributor ELSE c1.cnames[name].contributor]

\* A resolver that merges without looking at the mail.
LinkExistingWhateverMail(c, name, mail) ==
    LET nc == c.cnames[name].contributor
        mc == c.cmails[mail].contributor
    IN  IF nc = mc
        THEN [store |-> c, ret |-> nc]
        ELSE IF nc = Null /\ mc # Null
        THEN [store |-> [c EXCEPT !.cnames[name].contributor = mc], ret |-> mc]
        ELSE IF mc = Null
        THEN [store |-> [c EXCEPT !.cmails[mail].contributor = nc], ret |-> nc]
        ELSE merge_contributors(c, {nc, mc})

\* A resolver that leaves two established contributors apart.
LinkExistingApart(c, name, mail) ==
    LET nc == c.cnames[name].contributor
        mc == c.cmails[mail].contributor
    IN  IF nc = Null /\ mc # Null
        THEN [store |-> [c EXCEPT !.cnames[name].contributor = mc], ret |-> mc]
        ELSE IF mc = Null /\ nc # Null
        THEN [store |-> [c EXCEPT !.cmails[mail].contributor = nc], ret |-> nc]
        ELSE [store |-> c, ret |-> nc]

\* The branches of get_contributor when both rows were there.
LinkExisting(c, name, mail) ==
    LET nc == c.cnames[name].contributor
        mc == c.cmails[mail].contributor
    IN  IF nc = mc \/ invalid_mail(mail)
        THEN [store |-> c, ret |-> nc]
        ELSE IF nc = Null /\ mc # Null
        THEN [store |-> [c EXCEPT !.cnames[name].contributor = mc], ret |-> mc]
        ELSE IF mc = Null
        THEN [store |-> [c EXCEPT !.cmails[mail].contributor = nc], ret |-> nc]
        ELSE merge_contributors(c, {nc, mc})

\* get_contributor(name, mail): [store, ret]
get_contributor(c, name, mail) ==
    LET name_created == ~Has(c.cnames, name)
        mail_created == ~Has(c.cmails, mail)
        c1 == IF name_created
              THEN [c EXCEPT !.cnames = Put(@, name, [contributor |-> Null])]
              ELSE c
        c2 == IF mail_created
              THEN [c1 EXCEPT !.cmails = Put(@, mail, [contributor |-> Null, invalid |-> invalid_mail(mail)])]
              ELSE c1
    IN  IF name_created \/ mail_created
        THEN LinkCreated(c2, name, mail, name_created, mail_created)
        ELSE LinkExisting(c2, name, mail)

(* ------------------------- CI reconciliation ---------------------------- *)
\* CIBuild.passed and CIJob.passed (NullBooleanField): True, False or None.
\* TRAVIS_STATE and GITLAB_STATUS map a provider's status to it.
TRAVIS_STATE ==
    [s \in {"created", "passed", "started", "failed", "errored", "canceled"} |->
        CASE s = "created" -> "None"
          [] s = "passed" -> "True"
          [] s = "started" -> "None"
          [] s = "failed" -> "False"
          [] s = "errored" -> "False"
          [] s = "canceled" -> "False"]

GITLAB_STATUS ==
    [s \in {"failed", "success", "pending", "skipped", "canceled", "running"} |->
        CASE s = "failed" -> "False"
          [] s = "success" -> "True"
          [] s = "pending" -> "None"
          [] s = "skipped" -> "None"
          [] s = "canceled" -> "None"
          [] s = "running" -> "None"]

\* table[status]: a status that is not a key raises KeyError
KnownStatus(table, status) == status \in DOMAIN table

\* The ids of builds and jobs, and the refs they ran on: a branch, and a ref
\* that is the name of a Tag of the project.
BuildIds == 1..MaxBuildId
BranchRef == "x"
TagRef == "v1"

\* The CI rows of the Repo that is followed.  `pass` is the reconciliation
\* that is followed for it: builds of a GitLab repo, jobs of a GitLab repo,
\* builds of a GitHub repo that has a travis_id.
NoCI(pass) ==
    [pass |-> pass, builds |-> EmptyMap, jobs |-> EmptyMap, branches |-> {}, allow_failure |-> TRUE]

\* Branch.objects.get_or_create(name=branch_name, project=..., repo=self);
\* if created: branch.update()
GetOrCreateBranch(c, ref) == [c EXCEPT !.branches = @ \cup {ref}]

\* X.objects.get_or_create(repo=self, x_id=id, defaults={'passed': passed})
\* followed, when `refresh`, by: if not created and passed differs: save
UpsertPassed(rows, id, passed, refresh) ==
    IF ~Has(rows, id) THEN Put(rows, id, passed)
    ELSE IF refresh /\ rows[id] # passed THEN Put(rows, id, passed)
    ELSE rows

\* table[status] where the status is a key
StatusOf(table, status) == table[status]

\* Repo.get_builds_gitlab: the loop over api_list('/pipelines').  A pipeline
\* is [id, ref, status, detail]: detail is whether api_data('/pipelines/id')
\* answered 200 (it returns [] otherwise, and [] has no 'created_at').
\* The result is [c, error]: an exception ends the loop where it is raised.
RECURSIVE get_builds_gitlab(_, _)
get_builds_gitlab(c, pipelines) ==
    IF pipelines = <<>> THEN [c |-> c, error |-> FALSE]
    ELSE LET pl == Head(pipelines)
         IN  IF pl.ref = TagRef
             THEN get_builds_gitlab(c, Tail(pipelines))
             ELSE LET c1 == GetOrCreateBranch(c, pl.ref)
                  IN  IF ~KnownStatus(GITLAB_STATUS, pl.status) \/ ~pl.detail
                      THEN [c |-> c1, error |-> TRUE]
                      ELSE LET passed == StatusOf(GITLAB_STATUS, pl.status)
                               c2 == [c1 EXCEPT !.builds = UpsertPassed(@, pl.id, passed, TRUE)]
                           IN  get_builds_gitlab(c2, Tail(pipelines))

\* Repo.get_jobs_gitlab: the loop over api_list('/jobs').  A job is
\* [id, ref, status, image]: image is whether the Repo is the main repo of
\* its project and the name of the job is that of a robotpkg Image.
RECURSIVE get_jobs_gitlab(_, _)
get_jobs_gitlab(c, jobs) ==
    IF jobs = <<>> THEN [c |-> c, error |-> FALSE]
    ELSE LET data == Head(jobs)
             c1 == GetOrCreateBranch(c, data.ref)
         IN  IF ~KnownStatus(GITLAB_STATUS, data.status)
             THEN [c |-> c1, error |-> TRUE]
             ELSE LET passed == StatusOf(GITLAB_STATUS, data.status)
                      c2 == [c1 EXCEPT !.jobs = UpsertPassed(@, data.id, passed, TRUE)]
                      c3 == IF data.image /\ c2.allow_failure /\ passed = "True"
                            THEN [c2 EXCEPT !.allow_failure = FALSE]
                            ELSE c2
                  IN  get_jobs_gitlab(c3, Tail(jobs))

\* Repo.get_builds_github, for a Repo with a travis_id: the loop over the
\* builds of Travis.  A build is [id, ref, status]; ref is NoBranch when
\* build['branch'] is None.  An existing CIBuild row is left as it is.
NoBranch == "none"
RECURSIVE get_builds_github(_, _)
get_builds_github(c, builds) ==
    IF builds = <<>> THEN [c |-> c, error |-> FALSE]
    ELSE LET build == Head(builds)
         IN  IF build.ref = NoBranch \/ build.ref = TagRef
             THEN get_builds_github(c, Tail(builds))
             ELSE LET c1 == GetOrCreateBranch(c, build.ref)
                  IN  IF ~KnownStatus(TRAVIS_STATE, build.status)
                      THEN [c |-> c1, error |-> TRUE]
                      ELSE LET passed == StatusOf(TRAVIS_STATE, build.status)
                               c2 == [c1 EXCEPT !.builds = UpsertPassed(@, build.id, passed, FALSE)]
                           IN  get_builds_github(c2, Tail(builds))

\* What the providers list.  "manual" (GitLab) and "booting" (Travis) are
\* statuses the tables do not hold.
GitlabStatuses == DOMAIN GITLAB_STATUS \cup {"manual"}
TravisStates == DOMAIN TRAVIS_STATE \cup {"booting"}

\* The entries of a listing, and those of them that listings of two
\* entries are made of.
Pipelines ==
    {[id |-> i, ref |-> BranchRef, status |-> s, detail |-> TRUE] : i \in BuildIds, s \in GitlabStatuses}
    \cup {[id |-> 1, ref |-> TagRef, status |-> "success", detail |-> TRUE],
          [id |-> 1, ref |-> BranchRef, status |-> "success", detail |-> FALSE]}
PipelinesOfPairs ==
    {e \in Pipelines : e.status \in {"success", "failed"} \/ (e.id = 1 /\ e.status = "manual")}

Jobs ==
    {[id |-> i, ref |-> BranchRef, status |-> s, image |-> m] :
        i \in BuildIds, s \in GitlabStatuses, m \in BOOLEAN}
JobsOfPairs ==
    {e \in Jobs : e.image /\ (e.status \in {"success", "failed"} \/ (e.id = 1 /\ e.status = "manual"))}

TravisBuilds ==
    {[id |-> i, ref |-> BranchRef, status |-> s] : i \in BuildIds, s \in TravisStates}
    \cup {[id |-> 1, ref |-> TagRef, status |-> "passed"],
          [id |-> 1, ref |-> NoBranch, status |-> "passed"]}
TravisBuildsOfPairs ==
    {e \in TravisBuilds : e.status \in {"passed", "canceled"} \/ (e.id = 1 /\ e.status = "booting")}

\* Listings of at most two entries.
Listings(S, T) == {<<>>} \cup {<<a>> : a \in S} \cup {<<a, b>> : a \in T, b \in T}

(* ----------------------------- Repo.fetch -------------------------------- *)
\* What one git fetch of the remote does: it succeeds, raises
\* git.exc.GitCommandError, or raises something else (OSError).
FetchOutcomes == {"ok", "GitCommandError", "OSError"}

\* A fetch that gives up at the first failure.
SecondFetchNever(outcome) == FALSE

\* except git.exc.GitCommandError: ... SECOND TRY
SecondFetch(outcome) == outcome = "GitCommandError"

\* Repo.fetch(), with net[i] what the i-th git_repo.fetch() does: the
\* number of attempts, the boolean returned, and whether an exception left
\* the call instead.
repo_fetch(net) ==
    IF net[1] = "ok" THEN [attempts |-> 1, ok |-> TRUE, raised |-> FALSE]
    ELSE IF ~SecondFetch(net[1])
    THEN [attempts |-> 1, ok |-> FALSE, raised |-> net[1] # "GitCommandError"]
    ELSE IF net[2] = "ok" THEN [attempts |-> 2, ok |-> TRUE, raised |-> FALSE]
    ELSE [attempts |-> 2, ok |-> FALSE, raised |-> net[2] # "GitCommandError"]

FetchNets == {<<a, b>> : a \in FetchOutcomes, b \in FetchOutcomes}

(* ---------------------------- Branch.update ------------------------------ *)
\* A Branch row: deleted, ahead, behind (NotCounted: NULL), updated (the
\* author date of the tip, NoDate: NULL).
NotCounted == -1
NoDate == 0
NewBranch == [deleted |-> FALSE, ahead |-> NotCounted, behind |-> NotCounted, updated |-> NoDate]

\* What the git backend does for one Branch.update:
\*   net, main_net: the fetches of the Repo of the branch and of the main
\*        Repo (<<>> when the Repo of the branch is the main one);
\*   main_branch: whether the Branch row of the main branch exists
\*        (Branch.DoesNotExist otherwise);
\*   ahead, behind: the counts of rev-list, UnknownRevision when git fails
\*        on a ref it does not know (git.exc.GitCommandError);
\*   tip: the author date of remote.refs[branch], NoRef when the remote has
\*        no such ref (IndexError).
UnknownRevision == -2
NoRef == -1

BranchIO ==
    {[pull |-> p, net |-> n, main_net |-> m, main_branch |-> mb, ahead |-> c[1], behind |-> c[2],
      tip |-> t] :
        p \in BOOLEAN, n \in {<<"ok", "ok">>, <<"GitCommandError", "GitCommandError">>},
        m \in {<<>>, <<"ok", "ok">>}, mb \in BOOLEAN,
        c \in {<<UnknownRevision, UnknownRevision>>, <<1, UnknownRevision>>, <<1, 2>>, <<2, 0>>},
        t \in {NoRef, 1, 2}}

\* A Branch.update that runs whatever the row says.
IsDeletedNever(row) == FALSE

\* if self.deleted: return
IsDeleted(row) == row.deleted

\* n calls of `call`, in order.
Calls(call, n) == [i \in 1..n |-> call]

\* Branch.update(pull): the row it saves and the calls it makes, in order.
\* The failures of the git backend on an unknown ref end the try block and
\* set deleted; the fields assigned before the failure are saved with it.
BranchUpdate(row, io) ==
    IF IsDeleted(row) THEN [row |-> row, trace |-> <<>>]
    ELSE LET fetched == IF io.pull
                        THEN Calls("fetch", repo_fetch(io.net).attempts)
                             \o (IF io.main_net = <<>> THEN <<>>
                                 ELSE Calls("main_fetch", repo_fetch(io.main_net).attempts))
                        ELSE <<>>
             t1 == fetched \o <<"main_branch">>
         IN  IF ~io.main_branch
             THEN IF io.tip = NoRef
                  THEN [row |-> [row EXCEPT !.deleted = TRUE], trace |-> t1 \o <<"git", "save">>]
                  ELSE [row |-> [row EXCEPT !.updated = io.tip], trace |-> t1 \o <<"git", "save">>]
             ELSE IF io.ahead = UnknownRevision
             THEN [row |-> [row EXCEPT !.deleted = TRUE], trace |-> t1 \o <<"get_ahead", "save">>]
             ELSE IF io.behind = UnknownRevision
             THEN [row |-> [row EXCEPT !.deleted = TRUE, !.ahead = io.ahead],
                   trace |-> t1 \o <<"get_ahead", "get_behind", "save">>]
             ELSE IF io.tip = NoRef
             THEN [row |-> [row EXCEPT !.deleted = TRUE, !.ahead = io.ahead, !.behind = io.behind],
                   trace |-> t1 \o <<"get_ahead", "get_behind", "git", "save">>]
             ELSE [row |-> [row EXCEPT !.ahead = io.ahead, !.behind = io.behind, !.updated = io.tip],
                   trace |-> t1 \o <<"get_ahead", "get_behind", "git", "save">>]

NoBranchUpdate == [row |-> NewBranch, pre |-> NewBranch, io |-> <<>>, trace |-> <<>>]

(* --------------------------- the update cycle --------------------------- *)
\* The Repo row of one remote of a project (repo: whether it exists) and
\* the last operation run on it, with the calls it made, in order, each
\* <<the object, the method>>.
NoCycle == [op |-> "none", req |-> <<>>, repo |-> FALSE, trace |-> <<>>, ok |-> FALSE,
            raised |-> FALSE]

By(who, calls) == [i \in DOMAIN calls |-> <<who, calls[i]>>]

\* What the git backend does for the update of a Branch row that
\* get_or_create has just created: branch.update().
NewBranchIO ==
    {io \in BranchIO :
        /\ io.pull
        /\ io.net = <<"ok", "ok">>
        /\ io.main_net = <<>>
        /\ io.tip = 1
        /\ io.behind # 0
        /\ io.ahead = UnknownRevision <=> io.behind = UnknownRevision}

\* A pass that creates Branch rows (update_branches, get_builds,
\* get_jobs_gitlab) finds no new branch, or one, or raises.
BranchPasses ==
    {[created |-> FALSE, io |-> <<>>, raises |-> r] : r \in BOOLEAN}
    \cup {[created |-> TRUE, io |-> io, raises |-> FALSE] : io \in NewBranchIO}

BranchPass(pass) ==
    IF pass.created THEN By("Branch", BranchUpdate(NewBranch, pass.io).trace) ELSE <<>>

\* Repo.fetch() on the Repo row.
RepoFetch(net) ==
    LET f == repo_fetch(net)
    IN  [repo |-> TRUE, trace |-> By("Repo", Calls("fetch", f.attempts)), ok |-> f.ok,
         raised |-> f.raised]

\* A Repo.update that keeps the row of a remote it cannot fetch.
FetchFailedNever(ok) == FALSE

\* if ok: ... else: ... DELETING
FetchFailed(ok) == ~ok

\* Repo.update(pull), on the Repo row of a project that has a main
\* namespace or not (orphan), with what the fetch, api_update and get_builds
\* do.
RepoUpdate(req) ==
    IF req.orphan THEN [repo |-> TRUE, trace |-> <<>>, ok |-> FALSE, raised |-> FALSE]
    ELSE LET f == IF req.pull THEN repo_fetch(req.net)
                  ELSE [attempts |-> 0, ok |-> TRUE, raised |-> FALSE]
             t1 == <<<<"Project", "update_tags">>>> \o By("Repo", Calls("fetch", f.attempts))
         IN  IF f.raised
             THEN [repo |-> TRUE, trace |-> t1, ok |-> FALSE, raised |-> TRUE]
             ELSE IF FetchFailed(f.ok)
             THEN [repo |-> FALSE, trace |-> t1 \o <<<<"Repo", "delete">>>>, ok |-> FALSE,
                   raised |-> FALSE]
             ELSE IF req.api_raises
             THEN [repo |-> TRUE, trace |-> t1 \o <<<<"Repo", "api_update">>>>, ok |-> f.ok,
                   raised |-> TRUE]
             ELSE [repo |-> TRUE,
                   trace |-> t1 \o <<<<"Repo", "api_update">>, <<"Repo", "get_builds">>>>
                             \o BranchPass(req.builds),
                   ok |-> f.ok, raised |-> req.builds.raises]

\* Project.update(only_main_branches), on a project that has a main namespace
\* or not, whose mirror lists a branch of the remote or none: with a branch,
\* update_branches creates the Repo row that is missing (and calls its
\* api_update) and the Branch row that is missing (and updates it).
ProjectUpdate(repo, req) ==
    IF req.orphan THEN [repo |-> repo, trace |-> <<>>, ok |-> FALSE, raised |-> FALSE]
    ELSE LET t1 == <<<<"Project", "update_branches">>>>
                   \o (IF req.listed /\ ~repo THEN <<<<"Repo", "api_update">>>> ELSE <<>>)
                   \o (IF req.listed THEN BranchPass(req.branches) ELSE <<>>)
             repo1 == repo \/ req.listed
         IN  IF req.listed /\ req.branches.raises
             THEN [repo |-> repo1, trace |-> t1, ok |-> FALSE, raised |-> TRUE]
             ELSE LET t2 == t1 \o <<<<"Project", "update_tags">>, <<"Project", "update_repo">>,
                                    <<"Project", "ci_jobs">>>>
                               \o BranchPass(req.jobs)
                  IN  IF req.jobs.raises
                      THEN [repo |-> repo1, trace |-> t2, ok |-> FALSE, raised |-> TRUE]
                      ELSE [repo |-> repo1,
                            trace |-> t2 \o <<<<"Project", "checkout">>, <<"Project", "cmake">>,
                                              <<"Project", "ros">>, <<"Project", "save">>>>,
                            ok |-> FALSE, raised |-> FALSE]

(* ---------------------------- ahead / behind ---------------------------- *)
\* A commit graph: graph[c] is the set of the parents of commit c, which
\* are older (smaller) commits.  A commit has one parent, or two when it is
\* a merge into the previous commit; commits 1 and 2 may be roots.
CommitIds == 1..MaxCommit

ParentSets(c) ==
    (IF c <= 2 THEN {{}} ELSE {})
    \cup {{p} : p \in 1..(c - 1)}
    \cup {{c - 1, p} : p \in 1..(c - 2)}

RECURSIVE GraphsUpTo(_)
GraphsUpTo(n) ==
    IF n = 0 THEN {<<>>}
    ELSE {Append(g, ps) : g \in GraphsUpTo(n - 1), ps \in ParentSets(n)}

Graphs == GraphsUpTo(MaxCommit)

NoHistory == [graph |-> <<>>, b |-> 0, m |-> 0, ahead |-> NotCounted, behind |-> NotCounted]
NoHistoryOf(graph) == [NoHistory EXCEPT !.graph = graph]

\* The commits git walks from c.
RECURSIVE Reachable(_, _)
Reachable(graph, c) == {c} \cup UNION {Reachable(graph, p) : p \in graph[c]}

\* The text git prints for a set of commits: one commit per line, the
\* latest first, the lines joined by Newline; nothing for no commit.
Newline == 0

RECURSIVE Lines(_)
Lines(commits) ==
    IF commits = {} THEN <<>>
    ELSE LET c == CHOOSE x \in commits : \A y \in commits : y <= x
         IN  IF commits = {c} THEN <<c>> ELSE <<c, Newline>> \o Lines(commits \ {c})

\* git rev-list exclude..include
rev_list(graph, exclude, include) == Lines(Reachable(graph, include) \ Reachable(graph, exclude))

\* text.split('\n'): the lines of a text; the empty text has one empty line.
RECURSIVE Split(_)
Split(text) ==
    IF \A i \in DOMAIN text : text[i] # Newline THEN <<text>>
    ELSE LET i == CHOOSE k \in DOMAIN text :
                      text[k] = Newline /\ \A j \in 1..(k - 1) : text[j] # Newline
         IN  <<SubSeq(text, 1, i - 1)>> \o Split(SubSeq(text, i + 1, Len(text)))

\* A count that splits whatever git prints.
CountAlways(commits) == Len(Split(commits))

\* len(commits.split('\n')) if commits else 0
Count(commits) == IF commits # <<>> THEN Len(Split(commits)) ELSE 0

\* Branch.get_ahead(branch), Branch.get_behind(branch), with the tips of
\* the two branches.
get_ahead(graph, self, branch) == Count(rev_list(graph, branch, self))
get_behind(graph, self, branch) == Count(rev_list(graph, self, branch))

(* ---------------------------- the pagination ---------------------------- *)
\* The pages of a provider: page p answers a status, a JSON body that has
\* the key `name` or not, the records of the body, and the token of the
\* next page (0: none), which utils.api_next reads from the response.
Pages == 1..MaxPage
NoName == "none"

PageRecords(p) == {<<>>, <<10 * p + 1, 10 * p + 2>>}

PagesAt(p) ==
    {[status |-> st, keyed |-> k, records |-> rs, next |-> n] :
        st \in {200, 404}, k \in BOOLEAN, rs \in PageRecords(p), n \in {0} \cup (p + 1)..MaxPage}
    \ {[status |-> 404, keyed |-> FALSE, records |-> rs, next |-> n] :
          rs \in PageRecords(p), n \in {0} \cup (p + 1)..MaxPage}

RECURSIVE ProvidersUpTo(_)
ProvidersUpTo(n) ==
    IF n = 0 THEN {<<>>}
    ELSE {Append(f, x) : f \in ProvidersUpTo(n - 1), x \in PagesAt(n)}

Providers == ProvidersUpTo(MaxPage)

\* utils.api_next(source, req): the page the provider names as next, 0 (falsy)
\* when it names none.
api_next(resp) == resp.next

\* No call yet, on a provider with no page and on a provider with pages.
NoListing == [who |-> "none", name |-> NoName, provider |-> <<>>, requested |-> <<>>,
              yielded |-> <<>>, raised |-> FALSE]
NoListingOf(provider) == [NoListing EXCEPT !.provider = provider]

\* A pagination that reads the body of every answer.
PageOkWhateverStatus(resp) == TRUE

\* if req.status_code != 200: return []
PageOk(resp) == resp.status = 200

\* The loop of api_list(url, name) from `page` on.  With a name, the records
\* are data[name]: Forge.api_list raises KeyError on a body without the key,
\* Repo.api_list ends.
RECURSIVE ApiListFrom(_, _, _, _, _, _)
ApiListFrom(who, name, provider, page, requested, yielded) ==
    LET resp == provider[page]
        asked == Append(requested, page)
    IN  IF ~PageOk(resp)
        THEN [requested |-> asked, yielded |-> yielded, raised |-> FALSE]
        ELSE IF name # NoName /\ ~resp.keyed
        THEN [requested |-> asked, yielded |-> yielded, raised |-> who = "Forge"]
        ELSE IF api_next(resp) = 0
        THEN [requested |-> asked, yielded |-> yielded \o resp.records, raised |-> FALSE]
        ELSE ApiListFrom(who, name, provider, api_next(resp), asked, yielded \o resp.records)

\* api_list(url, name), consumed to its end: page = 1, while page: ...
api_list(who, name, provider) == ApiListFrom(who, name, provider, 1, <<>>, <<>>)

(* --------------------------- the API client ----------------------------- *)
\* What one requests.get does: it returns a response, whatever its status,
\* or raises; requests.exceptions.ConnectionError is the exception api_req
\* catches, TooManyRedirects stands for the others.
Responses == {[kind |-> "response", status |-> st] : st \in {200, 404, 500}}
Failures == {[kind |-> k, status |-> 0] : k \in {"ConnectionError", "TooManyRedirects"}}
Outcomes == Responses \cup Failures

NoCall == [who |-> "none", url |-> "", page |-> 0, net |-> <<>>, sent |-> 0,
           outcome |-> [kind |-> "none", status |-> 0]]

\* A client that tries again after every exception.
SecondTryOnFailure(outcome) == outcome \in Failures

\* except requests.exceptions.ConnectionError: ... SECOND TRY
SecondTry(outcome) == outcome.kind = "ConnectionError"

\* api_req(url, name, page), with net[i] what the i-th requests.get does:
\* the number of requests issued and how the call ends, returning the
\* response or raising the exception of its last request.
api_req(net) ==
    IF SecondTry(net[1])
    THEN [sent |-> 2, outcome |-> net[2]]
    ELSE [sent |-> 1, outcome |-> net[1]]

(* ------------------------- the reconciliation --------------------------- *)
\* The rows the reconciliation engine upserts, for one project name:
\*   projects:   name -> [main_namespace, main_forge, license, archived]
\*   namespaces: the slugs of the Namespace rows
\*   repos:      <<forge, namespace, project>> -> [repo_id, content,
\*               forked_from, travis_id, license, archived]
\* `content` stands for the fields a forge payload is copied to as they come
\* (name, slug, url, clone_url, default_branch, description, homepage, the
\* issue and pull-request counters).  A missing namespace or license is
\* NoNamespace or NoLicense, a missing id is Null.
NoNamespace == "null"
NoLicense == "null"
NoContent == "null"

\* The License table, seeded externally.
Licenses == {"MIT", "GPL"}

\* The group Namespace the forges are read for is seeded; the others are
\* created as the payloads name them.
NoRows == [projects |-> EmptyMap, namespaces |-> {"gepetto"}, repos |-> EmptyMap]

\* utils.valid_name(name): the name with the characters the target does not
\* allow replaced; a valid name is left as it is.
valid_name(name) == IF name = "my_proj" THEN "my-proj" ELSE name

\* The result of an operation: the rows it leaves, and whether it raised.
Done(rows) == [db |-> rows, error |-> FALSE]
Raised(rows) == [db |-> rows, error |-> TRUE]

\* api_data() of a response that is not a 200: []
NoData == [none |-> TRUE]

\* Project.objects.get_or_create(name=valid_name(...), defaults={...})
GetOrCreateProject(rows, name, main_namespace, main_forge) ==
    IF Has(rows.projects, name) THEN rows
    ELSE [rows EXCEPT !.projects =
             Put(@, name, [main_namespace |-> main_namespace, main_forge |-> main_forge,
                           license |-> NoLicense, archived |-> FALSE])]

\* A get_or_create whose defaults leave travis_id out.
GetOrCreateRepoWithoutTravis(rows, key, repo_id, travis_id) ==
    IF Has(rows.repos, key) THEN rows
    ELSE [rows EXCEPT !.repos =
             Put(@, key, [repo_id |-> repo_id, content |-> NoContent, forked_from |-> Null,
                          travis_id |-> Null, license |-> NoLicense, archived |-> FALSE])]

\* Repo.objects.get_or_create(forge=, namespace=, project=, defaults={...})
GetOrCreateRepo(rows, key, repo_id, travis_id) ==
    IF Has(rows.repos, key) THEN rows
    ELSE [rows EXCEPT !.repos =
             Put(@, key, [repo_id |-> repo_id, content |-> NoContent, forked_from |-> Null,
                          travis_id |-> travis_id, license |-> NoLicense, archived |-> FALSE])]

\* An ownership rule that claims the namespace on every update.
ClaimsAlways(created, main_namespace, forked) == TRUE

\* elif created or project.main_namespace is None (after the test of
\* forked_from_project)
ClaimsNamespace(created, main_namespace, forked) ==
    ~forked /\ (created \/ main_namespace = NoNamespace)

\* update_gitlab(forge, data).  data is NoData when it comes from an
\* api_data() that was not answered 200: [] has no 'archived' (TypeError).
update_gitlab(rows, forge, data) ==
    IF data = NoData THEN Raised(rows)
    ELSE IF data.archived THEN Done(rows)
    ELSE IF data.default_branch = NoContent THEN Done(rows)
    ELSE LET name == valid_name(data.name)
             created == ~Has(rows.projects, name)
             rows1 == GetOrCreateProject(rows, name, NoNamespace, forge)
             rows2 == [rows1 EXCEPT !.namespaces = @ \cup {data.namespace}]
             key == <<forge, data.namespace, name>>
             rows3 == GetOrCreateRepo(rows2, key, data.id, Null)
             forked == data.forked_from # Null
             repo == [rows3.repos[key] EXCEPT
                         !.repo_id = data.id,
                         !.content = data.content,
                         !.forked_from = IF forked THEN data.forked_from ELSE @]
             rows4 == IF ClaimsNamespace(created, rows3.projects[name].main_namespace, forked)
                      THEN [rows3 EXCEPT !.projects[name].main_namespace = data.namespace]
                      ELSE rows3
         IN  Done([rows4 EXCEPT !.repos[key] = repo])

\* A license rule that follows the forge whatever the project has.
ProjectLicenseOverwritten(current, license) == license

\* if not project.license: project.license = license
ProjectLicense(current, license) ==
    IF current = NoLicense THEN license ELSE current

\* An archived test that lets every payload through.
IsArchivedNever(data) == FALSE

\* if data['archived']: return
IsArchived(data) == data.archived

\* update_github(forge, namespace, data).  repo_data is what repo.api_data()
\* answers: NoData, or [license: an spdx_id, NoLicense when there is none].
update_github(rows, forge, namespace, data, repo_data) ==
    IF IsArchived(data) THEN Done(rows)
    ELSE LET name == valid_name(data.name)
             rows1 == GetOrCreateProject(rows, name, namespace, forge)
             key == <<forge, namespace, name>>
             rows2 == GetOrCreateRepo(rows1, key, data.id, Null)
             repo == [rows2.repos[key] EXCEPT !.repo_id = data.id, !.content = data.content]
             licensed == /\ repo_data # NoData
                         /\ repo_data.license \notin {NoLicense, "NOASSERTION"}
         IN  IF licensed /\ repo_data.license \notin Licenses
             THEN Raised(rows2)
             ELSE IF licensed
             THEN Done([rows2 EXCEPT
                           !.repos[key] = [repo EXCEPT !.license = repo_data.license],
                           !.projects[name].license = ProjectLicense(@, repo_data.license)])
             ELSE Done([rows2 EXCEPT !.repos[key] = repo])

\* Project.main_repo(): the key of the Repo row of (main_forge,
\* main_namespace, project).
MainRepoKey(rows, name) ==
    <<rows.projects[name].main_forge, rows.projects[name].main_namespace, name>>

\* Repo.api_update(), on the Repo row `key`.  data is what self.api_data()
\* answers (update_github reads the same answer again), main_data what the api_data() of the main Repo answers when
\* Project.main_repo() has to create its row (and then updates it).
\* A project without main namespace cannot get a main Repo: the insert
\* violates NOT NULL on Repo.namespace (IntegrityError).
RECURSIVE api_update(_, _, _, _)
api_update(rows, key, data, main_data) ==
    IF data = NoData THEN Done(rows)
    ELSE IF data.archived
    THEN LET name == key[3]
             main == MainRepoKey(rows, name)
         IN  IF rows.projects[name].main_namespace = NoNamespace
             THEN Raised(rows)
             ELSE LET r == IF Has(rows.repos, main) THEN Done(rows)
                           ELSE api_update(GetOrCreateRepo(rows, main, 0, Null), main, main_data, NoData)
                  IN  IF r.error THEN r
                      ELSE LET rows1 == IF main = key
                                        THEN [r.db EXCEPT !.projects[name].archived = TRUE]
                                        ELSE r.db
                           IN  Done([rows1 EXCEPT !.repos[key].archived = TRUE])
    ELSE IF key[1] = "gitlab"
    THEN update_gitlab(rows, key[1], data)
    ELSE update_github(rows, key[1], key[2], data, [license |-> data.license])

\* update_travis(namespace, data)
update_travis(rows, namespace, data, repo_data, main_data) ==
    LET name == valid_name(data.name)
        key == <<"github", namespace, name>>
    IN  IF ~Has(rows.projects, name) THEN Done(rows)
        ELSE IF ~Has(rows.repos, key)
        THEN api_update(GetOrCreateRepo(rows, key, 0, data.id), key, repo_data, main_data)
        ELSE Done([rows EXCEPT !.repos[key].travis_id = data.id])

\* Forge.get_projects_gitlab: update_gitlab over the listing, then the pass
\* over the projects without main namespace.  parent is what
\* api_data('/projects/<forked_from>') answers.
RECURSIVE UpdateAllGitlab(_, _)
UpdateAllGitlab(rows, listing) ==
    IF listing = <<>> THEN Done(rows)
    ELSE LET r == update_gitlab(rows, "gitlab", Head(listing))
         IN  IF r.error THEN r ELSE UpdateAllGitlab(r.db, Tail(listing))

Orphans(rows) == {p \in DOMAIN rows.projects : rows.projects[p].main_namespace = NoNamespace}
GitlabRepos(rows, p) == {k \in DOMAIN rows.repos : k[1] = "gitlab" /\ k[3] = p}

\* The answer of GET /projects/<id>: project 1 is the parent, project 2 the fork,
\* and no other id (a missing forked_from among them) names a project.
ApiProject(parent, id) ==
    CASE id = 1 -> parent
      [] id = 2 -> [name |-> "my_proj", namespace |-> "fork", id |-> 2, forked_from |-> 1,
                    archived |-> FALSE, default_branch |-> "master", content |-> "v1"]
      [] OTHER -> NoData

\* A lookup of the parent by the Repo's own id.
ParentIdOwn(repo) == repo.repo_id
\* The id in the path of the parent's request.
ParentId(repo) == repo.forked_from

RECURSIVE OrphanPass(_, _, _)
OrphanPass(rows, orphans, parent) ==
    IF orphans = {} THEN Done(rows)
    ELSE LET orphan == CHOOSE p \in orphans : TRUE
             repos == GitlabRepos(rows, orphan)
             r == IF repos = {} THEN Done(rows)
                  ELSE LET repo == rows.repos[CHOOSE k \in repos : TRUE]
                       IN  update_gitlab(rows, "gitlab", ApiProject(parent, ParentId(repo)))
         IN  IF r.error THEN r ELSE OrphanPass(r.db, orphans \ {orphan}, parent)

get_projects_gitlab(rows, listing, parent) ==
    LET r == UpdateAllGitlab(rows, listing)
    IN  IF r.error THEN r ELSE OrphanPass(r.db, Orphans(r.db), parent)

\* The deletion of a Namespace row: its Repos are deleted with it (CASCADE) and
\* the Projects it was the main namespace of lose it (SET_NULL).
namespace_delete(rows, namespace) ==
    [namespaces |-> rows.namespaces \ {namespace},
     repos |-> [k \in {x \in DOMAIN rows.repos : x[2] # namespace} |-> rows.repos[k]],
     projects |-> [p \in DOMAIN rows.projects |->
                      IF rows.projects[p].main_namespace = namespace
                      THEN [rows.projects[p] EXCEPT !.main_namespace = NoNamespace]
                      ELSE rows.projects[p]]]

\* The payloads of the forges for the project: the repository of the group
\* namespace, and on GitLab a repository of a user namespace, a fork of the
\* first (forked_from = 1) or not (forked_from = Null).
GitlabPayload(namespace, forked_from, archived, default_branch, content) ==
    [name |-> "my_proj", namespace |-> namespace,
     id |-> IF namespace = "gepetto" THEN 1 ELSE 2,
     forked_from |-> forked_from,
     archived |-> archived, default_branch |-> default_branch, content |-> content]

GitlabPayloads ==
    {GitlabPayload("gepetto", Null, a, b, c) :
        a \in BOOLEAN, b \in {NoContent, "master"}, c \in {"v1", "v2"}}
    \cup {GitlabPayload("fork", f, a, "master", "v1") : f \in {Null, 1}, a \in BOOLEAN}

ParentResponses ==
    {NoData} \cup {GitlabPayload("gepetto", Null, a, "master", "v1") : a \in BOOLEAN}

GithubPayloads ==
    {[name |-> "my_proj", id |-> 3, archived |-> a, content |-> "v1", license |-> NoLicense] :
        a \in BOOLEAN}

RepoData ==
    {NoData} \cup {[license |-> l] : l \in Licenses \cup {NoLicense, "NOASSERTION", "WTFPL"}}

TravisPayloads == {[name |-> "my_proj", id |-> 5]}

\* What api_data() answers for the Repo row `key`.
ApiData(key) ==
    {NoData} \cup
    (IF key[1] = "gitlab"
     THEN {GitlabPayload(key[2], IF key[2] = "gepetto" THEN Null ELSE 1, a, "master", "v1") :
              a \in BOOLEAN}
     ELSE GithubPayloads)

(* ---------------------------- the Repo table ---------------------------- *)
\* The Repo rows of one project, each [id, key] with key = <<forge,
\* namespace>> (the table has no uniqueness constraint), the next id of the
\* table, whether the Project row exists and its <<main_forge,
\* main_namespace>> (<<>> without main namespace).
RepoKeys == {<<f, n>> : f \in {"gitlab", "github"}, n \in {"gepetto", "fork"}}

NoTable == [rows |-> {}, nextId |-> 1, project |-> FALSE, main |-> <<>>,
            op |-> "none", key |-> <<>>, returned |-> 0, raised |-> FALSE, pre |-> {}]

\* A lookup that never finds a row.
FindRepoNever(rows, key) == {}

\* Repo.objects.get(forge=, namespace=, project=)
FindRepo(rows, key) == {r \in rows : r.key = key}

\* Repo.objects.get_or_create(forge=, namespace=, project=, defaults=): the
\* row found, or a new one; MultipleObjectsReturned with several rows.
RepoGetOrCreate(t, key) ==
    LET found == FindRepo(t.rows, key)
    IN  IF found = {}
        THEN [t |-> [t EXCEPT !.rows = @ \cup {[id |-> t.nextId, key |-> key]}, !.nextId = @ + 1],
              id |-> t.nextId, created |-> TRUE, raised |-> FALSE]
        ELSE IF Cardinality(found) = 1
        THEN [t |-> t, id |-> (CHOOSE r \in found : TRUE).id, created |-> FALSE, raised |-> FALSE]
        ELSE [t |-> t, id |-> 0, created |-> FALSE, raised |-> TRUE]

\* What api_data() answers to the api_update of a new row.
NewRepoAnswers == {"none", "payload", "archived"}

\* Project.main_repo() and the Repo.api_update() of a row that was just
\* created: the payload of the forge goes to update_gitlab or update_github,
\* which get the row of the same triple; an archived one asks for the main
\* repo, which is created when it is missing (its own api_data answering
\* nothing).
RECURSIVE TableMainRepo(_, _)
TableApiUpdate(t, key, data) ==
    IF data = "none" THEN [t |-> t, id |-> 0, created |-> FALSE, raised |-> FALSE]
    ELSE IF data = "payload" THEN RepoGetOrCreate(t, key)
    ELSE TableMainRepo(t, "none")

TableMainRepo(t, data) ==
    IF t.main = <<>> THEN [t |-> t, id |-> 0, created |-> FALSE, raised |-> TRUE]
    ELSE LET r == RepoGetOrCreate(t, t.main)
         IN  IF r.raised \/ ~r.created THEN r
             ELSE LET u == TableApiUpdate(r.t, t.main, data)
                  IN  [t |-> u.t, id |-> r.id, created |-> TRUE, raised |-> u.raised]

\* get_or_create then, if created: repo.api_update() (update_travis,
\* Project.update_branches)
TableCreateAndUpdate(t, key, data) ==
    LET r == RepoGetOrCreate(t, key)
    IN  IF r.raised \/ ~r.created THEN r
        ELSE LET u == TableApiUpdate(r.t, key, data)
             IN  [t |-> u.t, id |-> r.id, created |-> TRUE, raised |-> u.raised]

\* update_gitlab on the payload of the repository of a namespace, a fork or
\* not: the Project row, the Repo row, the main namespace.
TableUpdateGitlab(t, namespace, forked) ==
    LET created == ~t.project
        r == RepoGetOrCreate([t EXCEPT !.project = TRUE], <<"gitlab", namespace>>)
    IN  IF r.raised THEN r
        ELSE [r EXCEPT !.t.main = IF ClaimsNamespace(created, IF t.main = <<>> THEN NoNamespace
                                                               ELSE t.main[2], forked)
                                  THEN <<"gitlab", namespace>> ELSE @]

\* update_github on the payload of the repository of the group namespace.
TableUpdateGithub(t) ==
    RepoGetOrCreate([t EXCEPT !.project = TRUE,
                              !.main = IF t.project THEN @ ELSE <<"github", "gepetto">>],
                    <<"github", "gepetto">>)

(* --------------------------- the dependencies --------------------------- *)
\* The Project rows whose manifests are read, by name, and the Dependency
\* rows: <<project, library>> -> [cmake, ros] (unique per pair).  names is
\* the cmake_name of each project, NoContent when it has none.
DepProjects == {"my-proj", "lib"}

\* The names a manifest can give: of a project as it is written upstream,
\* of another, and of a package that is no project.
ManifestNames == {"my_proj", "lib", "boost"}

NoDeps == [deps |-> EmptyMap, names |-> [p \in DepProjects |-> NoContent],
           op |-> "none", self |-> "", manifest |-> <<>>]

\* Dependency.objects.get_or_create(project=self, library=...), then the
\* flag of the manifest when it is not set.
Depend(deps, pair, flag) ==
    LET row == IF Has(deps, pair) THEN deps[pair] ELSE [cmake |-> FALSE, ros |-> FALSE]
    IN  Put(deps, pair, IF flag = "cmake" THEN [row EXCEPT !.cmake = TRUE]
                        ELSE [row EXCEPT !.ros = TRUE])

\* for dependency in re.findall(...): if a Project has that name, depend on it
RECURSIVE DependOnAll(_, _, _, _)
DependOnAll(deps, self, names, flag) ==
    IF names = {} THEN deps
    ELSE LET dependency == CHOOSE n \in names : TRUE
             library == valid_name(dependency)
             deps1 == IF library \in DepProjects THEN Depend(deps, <<self, library>>, flag)
                      ELSE deps
         IN  DependOnAll(deps1, self, names \ {dependency}, flag)

\* new = search.groups()[0].strip(...).replace('_', '-')
Dashed(name) == IF name = "my_proj" THEN "my-proj" ELSE name

\* Project.cmake(): nothing without CMakeLists.txt; the PROJECT_NAME it
\* sets goes to cmake_name, with '_' replaced; then its dependencies.
cmake(t, self, manifest) ==
    IF ~manifest.exists THEN t
    ELSE [t EXCEPT !.names[self] = IF manifest.name = NoContent THEN @
                                   ELSE Dashed(manifest.name),
                   !.deps = DependOnAll(@, self, manifest.depends, "cmake")]

\* Project.ros(): nothing without package.xml; then its run_depend.
ros(t, self, manifest) ==
    IF ~manifest.exists THEN t
    ELSE [t EXCEPT !.deps = DependOnAll(@, self, manifest.depends, "ros")]

\* A missing manifest, and the manifests that name no package, one, or all.
Manifests ==
    {[exists |-> FALSE, name |-> NoContent, depends |-> {}]}
    \cup {[exists |-> TRUE, name |-> n, depends |-> d] :
             n \in {NoContent, "my_proj"}, d \in {{}, ManifestNames} \cup {{x} : x \in ManifestNames}}

(* --------------------------- project names ----------------------------- *)
\* Names are sequences of characters; "_" and "-" are the characters
\* that a valid project name does not hold (unvalid_projects).
MaxLen == 3
NameChars == {"a", "b", "_", "-"}
Disallowed == {"_", "-"}
RawNames == UNION {[1..n -> NameChars] : n \in 0..MaxLen}

\* utils.valid_name over the characters of a name: the disallowed
\* characters are stripped, the others are kept in their order.
RECURSIVE normalize(_)
normalize(x) ==
    IF x = <<>> THEN <<>>
    ELSE IF Head(x) \in Disallowed THEN normalize(Tail(x))
    ELSE <<Head(x)>> \o normalize(Tail(x))

\* A save that stores the name as it was given.
SavedNameAsGiven(name) == name
\* Project.save: self.name = valid_name(self.name)
SavedName(name) == normalize(name)

\* unvalid_projects: the name holds "_" or "-".
Unvalid(name) == \E i \in 1..Len(name) : name[i] \in Disallowed

\* No Project row in hand.
NoProject == [given |-> <<>>, name |-> <<>>, saves |-> 0, first |-> <<>>]

(* ---------------------------- branch names ------------------------------ *)
\* A branch name is the sequence of its '/'-separated components.  The
\* lines of `git branch -a` (after b[2:]): local branches and, under
\* remotes/, the branches of the remotes.
BranchLines ==
    {<<"master">>, <<"devel">>, <<"topic">>, <<"origin", "devel">>,
     <<"github", "gepetto", "master">>,
     <<"remotes", "github", "gepetto", "master">>,
     <<"remotes", "gitlab", "gepetto", "devel">>,
     <<"remotes", "github", "gepetto", "topic", "x">>}

\* b.endswith('master') or b.endswith('devel')
EndsWithMain(line) == line[Len(line)] \in {"master", "devel"}

\* branch[8:] if branch.startswith('remotes/')
StripRemotes(line) == IF Len(line) > 1 /\ Head(line) = "remotes" THEN Tail(line) ELSE line

\* A test that finds the prefix in every name.
LacksPrefixNever(name) == FALSE
\* branch.count('/') < 2
LacksPrefix(name) == Len(name) < 3

\* The rows and refs of one project: the names of its Branch rows, the
\* <<forge, namespace>> of its Repo rows, and its local branches; of the last
\* call: what it was, the names it considered, the names it reported with
\* logger.error, whether it raised, and the local branches before it.
NoNaming ==
    [branches |-> {}, repos |-> {}, heads |-> {<<"master">>},
     op |-> "none", considered |-> {}, reported |-> {}, raised |-> FALSE, created |-> {}]

\* The body of the loop of Project.update_branches for one line.
UpdateBranch(t, line) ==
    LET branch == StripRemotes(line)
        seen == [t EXCEPT !.considered = @ \cup {branch}]
    IN  IF t.raised THEN t
        ELSE IF LacksPrefix(branch)
        THEN IF branch # <<"master">> THEN [seen EXCEPT !.reported = @ \cup {branch}] ELSE seen
        ELSE IF Len(branch) < 3 THEN [seen EXCEPT !.raised = TRUE]
        ELSE [seen EXCEPT !.repos = @ \cup {<<branch[1], branch[2]>>},
                          !.branches = @ \cup {branch},
                          !.created = @ \cup ({branch} \ t.branches)]

RECURSIVE UpdateBranchLines(_, _)
UpdateBranchLines(t, lines) ==
    IF lines = <<>> THEN t ELSE UpdateBranchLines(UpdateBranch(t, Head(lines)), Tail(lines))

\* Project.update_branches(main) over the lines of `git branch -a`
update_branches(t, lines, main) ==
    LET kept == SelectSeq(lines, LAMBDA b : ~main \/ EndsWithMain(b))
        start == [t EXCEPT !.op = "update_branches", !.considered = {}, !.reported = {},
                           !.raised = FALSE, !.created = {}]
    IN  UpdateBranchLines(start, kept)

\* Branch.git() of the Branch row `name`: the local branch is created from
\* the ref of the remote when it is missing.
branch_git(t, name) ==
    LET start == [t EXCEPT !.op = "git", !.considered = {name}, !.reported = {},
                           !.raised = FALSE, !.created = {}]
    IN  IF name \in t.heads THEN start
        ELSE IF Len(name) < 3 THEN [start EXCEPT !.raised = TRUE]
        ELSE [start EXCEPT !.heads = @ \cup {name}, !.created = {name}]

(* ------------------------- contributor projects ------------------------- *)
\* The projects whose authorship summaries are read.
LinkProjects == {"p1", "p2"}

\* The Contributor.projects rows once the Contributors `gone` are deleted:
\* the rows of a deleted Contributor go with it.
LinksAfterDelete(rows, kept) == {l \in rows : l[1] \in kept}

\* contributor.projects.add(self)
ProjectsAdd(rows, contributor, project) == rows \cup {<<contributor, project>>}

(* -------------------- get_contributor, operation by operation ----------- *)
\* A call in flight holds its copies of the two rows (the contributor of
\* each, as read by its get_or_create or as assigned since), the datastore
\* operations it has still to do, and what it returns.
Callers == {1, 2}
MaxPrior == 2
EmptyStore == [contributors |-> {}, cnames |-> EmptyMap, cmails |-> EmptyMap, nextId |-> 1]
Idle == [pc |-> "idle", cname |-> Null, cmail |-> Null, name_created |-> FALSE,
         mail_created |-> FALSE, todo |-> <<>>, ret |-> Null, raised |-> FALSE]
NoRace == [store |-> EmptyStore, name |-> 1, mail |-> <<"user", 1>>, prior |-> 0, overlapped |-> FALSE,
           calls |-> [p \in Callers |-> Idle]]

\* ContributorName.objects.get_or_create(name=name)
GetOrCreateName(c, l, name) ==
    IF Has(c.cnames, name)
    THEN [store |-> c, local |-> [l EXCEPT !.pc = "get_mail", !.cname = c.cnames[name].contributor]]
    ELSE [store |-> [c EXCEPT !.cnames = Put(@, name, [contributor |-> Null])],
          local |-> [l EXCEPT !.pc = "get_mail", !.cname = Null, !.name_created = TRUE]]

\* The operations that follow the two get_or_create, by the branch taken.
Todo(l, mail) ==
    IF l.name_created /\ l.mail_created
    THEN <<"create", "save_name", "save_mail", "mail_from_name", "name_from_mail">>
    ELSE IF l.mail_created THEN <<"mail_from_name">>
    ELSE IF l.name_created THEN <<"name_from_mail">>
    ELSE IF l.cname = l.cmail \/ invalid_mail(mail) THEN <<>>
    ELSE IF l.cname = Null /\ l.cmail # Null THEN <<"name_from_mail">>
    ELSE IF l.cmail = Null THEN <<"mail_from_name">>
    ELSE <<"merge">>

\* ContributorMail.objects.get_or_create(mail=mail, defaults=...), and the
\* choice of the branch, which reads the copies only.
GetOrCreateMail(c, l, mail) ==
    LET c1 == IF Has(c.cmails, mail) THEN c
              ELSE [c EXCEPT !.cmails = Put(@, mail, [contributor |-> Null, invalid |-> invalid_mail(mail)])]
        l1 == [l EXCEPT !.cmail = IF Has(c.cmails, mail) THEN c.cmails[mail].contributor ELSE Null,
                        !.mail_created = ~Has(c.cmails, mail)]
        todo == Todo(l1, mail)
    IN  [store |-> c1,
         local |-> [l1 EXCEPT !.todo = todo, !.ret = l1.cname,
                              !.pc = IF todo = <<>> THEN "done" ELSE "ops"]]

\* instance.save(): the row is written with the contributor of the copy.
SaveRow(rows, key, contributor, fresh) ==
    IF Has(rows, key) THEN [rows EXCEPT ![key].contributor = contributor]
    ELSE Put(rows, key, [fresh EXCEPT !.contributor = contributor])

\* One datastore operation of a call, with the assignments that precede it.
RaceOp(c, l, name, mail) ==
    LET op == Head(l.todo)
        rest == [l EXCEPT !.todo = Tail(@), !.pc = IF Tail(l.todo) = <<>> THEN "done" ELSE "ops"]
        noName == [contributor |-> Null]
        noMail == [contributor |-> Null, invalid |-> invalid_mail(mail)]
    IN  CASE op = "create" ->
               [store |-> [c EXCEPT !.contributors = @ \cup {c.nextId}, !.nextId = @ + 1],
                local |-> [rest EXCEPT !.cname = c.nextId, !.cmail = c.nextId, !.ret = c.nextId]]
          [] op = "save_name" ->
               [store |-> [c EXCEPT !.cnames = SaveRow(@, name, l.cname, noName)], local |-> rest]
          [] op = "save_mail" ->
               [store |-> [c EXCEPT !.cmails = SaveRow(@, mail, l.cmail, noMail)], local |-> rest]
          [] op = "mail_from_name" ->
               [store |-> [c EXCEPT !.cmails = SaveRow(@, mail, l.cname, noMail)],
                local |-> [rest EXCEPT !.cmail = l.cname, !.ret = l.cname]]
          [] op = "name_from_mail" ->
               [store |-> [c EXCEPT !.cnames = SaveRow(@, name, l.cmail, noName)],
                local |-> [rest EXCEPT !.cname = l.cmail, !.ret = l.cmail]]
          [] OTHER ->
               LET r == merge_contributors(c, {l.cname, l.cmail})
               IN  [store |-> r.store,
                    local |-> [rest EXCEPT !.ret = r.ret, !.raised = r.ret \notin r.store.contributors]]

(* --------------------------- ordered_projects --------------------------- *)
\* The Project rows: each is "good" (from_gepetto, with a Robotpkg, not
\* archived), "archived" (from_gepetto, with a Robotpkg, archived) or
\* "foreign" (not from_gepetto or without Robotpkg); and the Dependency
\* rows, pairs <<project, library>>.
OrderProjects == {"a", "b", "c"}
ProjectKinds == {"good", "archived", "foreign"}
MaxDeps == 2
DependencyTables ==
    [kind : [OrderProjects -> ProjectKinds],
     deps : {d \in SUBSET (OrderProjects \X OrderProjects) : Cardinality(d) <= MaxDeps}]

\* Project.objects.exclude(bad_ones)
MainProjects(t) == {p \in OrderProjects : t.kind[p] = "good"}

\* main.all().exclude(dependencies__isnull=False)
WithoutDependencies(t) == {p \in MainProjects(t) : ~\E d \in t.deps : d[1] = p}

\* prj.dependencies.exclude(library_bad_ones): the libraries that are
\* from_gepetto and have a Robotpkg, archived or not.
CountedLibraries(t, prj) == {d[2] : d \in {x \in t.deps : x[1] = prj /\ t.kind[x[2]] # "foreign"}}

\* new_ret: the projects of rest whose counted libraries are all in ret.
NewRet(t, ret, rest) == {prj \in rest : CountedLibraries(t, prj) \subseteq ret}

NoOrdering == [pc |-> "idle", table |-> [kind |-> [p \in OrderProjects |-> "good"], deps |-> {}],
               ret |-> {}, rest |-> {}, rounds |-> 0]

(* --------------------------- the requests ------------------------------- *)
PushBody(owner, b, after) ==
    [kind |-> "push", owner |-> owner, name |-> "Proj", ref |-> <<"refs", "heads">> \o b, after |-> after]

PullRequestBody(owner, n, h, c) ==
    [kind |-> "pull_request", owner |-> owner, name |-> "Proj", number |-> n, head_login |-> h,
     clone_url |-> <<"https://github.com", h, "Proj">>, head_sha |-> c]

PushBodies == {PushBody("Gepetto", b, a) : b \in BranchNames, a \in {ZeroSha} \cup Shas}

PullRequestBodies ==
    {PullRequestBody("Gepetto", n, h, c) : n \in PRNumbers, h \in HeadLogins, c \in Shas}

CheckSuiteBodies == {[kind |-> "check_suite", id |-> i] : i \in SuiteIds}

PipelineBody(owner) ==
    [kind |-> "pipeline", owner |-> owner, name |-> "Proj", ref |-> <<"x">>, sha |-> 1, status |-> "success"]

\* The bodies that name a namespace or a project the datastore does not hold.
UnknownOwners == Owners \ {"Gepetto"}
NotFoundBodies ==
    {PushBody(o, <<"x">>, a) : o \in UnknownOwners, a \in {ZeroSha, 1}}
    \cup {PullRequestBody(o, "7", "fork", 1) : o \in UnknownOwners}

\* A delivery of GitHub: from one of its addresses, signed with the secret.
Signed(body) == Present(<<"sha1", HmacSha1(GITHUB_WEBHOOK_KEY, body)>>)
GithubDelivery(event, body) ==
    [fwd |-> Present(9), sig |-> Signed(body), event |-> event, body |-> body]

\* The same delivery with one element of the verification made to fail.
Unverified(event, body) ==
    LET d == GithubDelivery(event, body)
    IN  { [d EXCEPT !.fwd = Present(3)],
          [d EXCEPT !.fwd = Missing],
          [d EXCEPT !.sig = Missing],
          [d EXCEPT !.sig = Present(<<"sha1">>)],
          [d EXCEPT !.sig = Present(<<"md5", HmacSha1(GITHUB_WEBHOOK_KEY, body)>>)],
          [d EXCEPT !.sig = Present(<<"sha1", HmacSha1("guess", body)>>)] }

\* Bodies that change something when their handler runs.
MutatingBodies ==
    {PushBody("Gepetto", <<"x">>, ZeroSha), PushBody("Gepetto", <<"x">>, 1),
     PullRequestBody("Gepetto", "7", "fork", 1), [kind |-> "check_suite", id |-> 41]}

\* The X-GitHub-Event header of a delivery: missing, a handled kind or another.
GithubEventHeaders == {Missing, Present("push"), Present("issues")}

GitlabDelivery(event, body) ==
    [fwd |-> Present(5), token |-> Present(GITLAB_WEBHOOK_KEY), event |-> event, body |-> body]

GitlabRequests ==
    {GitlabDelivery(e, PipelineBody(o)) :
        e \in {Missing, Present("Pipeline Hook"), Present("Push Hook")}, o \in Owners}
    \cup (LET d == GitlabDelivery(Present("Pipeline Hook"), PipelineBody("Gepetto"))
          IN  { [d EXCEPT !.fwd = Present(9)],
                [d EXCEPT !.fwd = Missing],
                [d EXCEPT !.token = Missing],
                [d EXCEPT !.token = Present("guess")] })

\* The world a handler meets when it is not under study: every fetch
\* succeeds and finds branch x at commit 1.
FoundX == [ok |-> TRUE, tips |-> [b \in {<<"x">>} |-> 1]]
PlainIO == [ghFetch |-> FoundX, glFetch |-> FoundX, headFetch |-> FoundX, shaKnown |-> TRUE]

\* The fetch of the head repository of a pull request: it fails, or brings
\* commits (the branches of that repository are not read by the handlers).
HeadFetchResults == {[ok |-> FALSE, tips |-> EmptyMap], [ok |-> TRUE, tips |-> EmptyMap]}

(* ---------------------------- the actions ------------------------------- *)
Snapshot == [mirror |-> mirror, suites |-> checkSuites]

\* One request answered by an endpoint: the datastore and the mirror are as
\* the handler left them.
Answer(op, req, o) ==
    /\ mirror' = o.mirror
    /\ checkSuites' = o.suites
    /\ last' = [op |-> op, req |-> req, status |-> o.status, handler |-> o.handler,
                calls |-> o.calls, pre |-> Snapshot]
    /\ UNCHANGED <<namespaces, projects>>
    /\ UNCHANGED <<contribVars, ciVars, reconVars, clientVars, pagerVars, cycleVars, branchVars, historyVars, tableVars, depVars, nameVars, namingVars, linkVars, raceVars, orderVars>>

\* Repo.git(): the remote of a Repo row of the project, created when absent.
RepoGit(forge) ==
    LET remote == <<forge, "gepetto">>
        g1 == ProjectGit([m |-> mirror, calls |-> <<>>])
        g2 == IF remote \in g1.m.remotes THEN g1
              ELSE CreateRemote(g1, remote, <<"clone_url", forge>>)
    IN  /\ mirror' = g2.m
        /\ last' = [op |-> "repo_git", req |-> remote, status |-> 0, handler |-> "none",
                    calls |-> g2.calls, pre |-> Snapshot]
        /\ UNCHANGED <<namespaces, projects, checkSuites>>
        /\ UNCHANGED <<contribVars, ciVars, reconVars, clientVars, pagerVars, cycleVars, branchVars, historyVars, tableVars, depVars, nameVars, namingVars, linkVars, raceVars, orderVars>>

WebhookPush ==
    \E body \in PushBodies, ghFetch \in FetchResults, glFetch \in FetchResults :
        LET req == GithubDelivery(Present("push"), body)
            io == [PlainIO EXCEPT !.ghFetch = ghFetch, !.glFetch = glFetch]
        IN  Answer("webhook", req, webhook(req, io))

WebhookPullRequest ==
    \E body \in PullRequestBodies, headFetch \in HeadFetchResults, shaKnown \in BOOLEAN :
        LET req == GithubDelivery(Present("pull_request"), body)
            io == [PlainIO EXCEPT !.headFetch = headFetch, !.shaKnown = shaKnown]
        IN  Answer("webhook", req, webhook(req, io))

\* A delivery of any kind in the plain world.
WebhookDelivery ==
    \E body \in PushBodies \cup PullRequestBodies \cup CheckSuiteBodies :
        LET req == GithubDelivery(Present(body.kind), body)
        IN  Answer("webhook", req, webhook(req, PlainIO))

WebhookNotFound ==
    \E body \in NotFoundBodies :
        LET req == GithubDelivery(Present(body.kind), body)
        IN  Answer("webhook", req, webhook(req, PlainIO))

WebhookOther ==
    \E event \in {Missing, Present("ping"), Present("issues")} :
        LET req == GithubDelivery(event, [kind |-> "check_suite", id |-> 41])
        IN  Answer("webhook", req, webhook(req, PlainIO))

\* A push delivery in which any number of the checks of the source fail.
WebhookFailing ==
    \E fwd \in {Present(9), Present(3)}, algo \in {"sha1", "md5"}, key \in {GITHUB_WEBHOOK_KEY, "guess"},
       signed \in BOOLEAN, event \in GithubEventHeaders :
        LET body == PushBody("Gepetto", <<"x">>, 1)
            req == [fwd |-> fwd, event |-> event, body |-> body,
                    sig |-> IF signed THEN Present(<<algo, HmacSha1(key, body)>>) ELSE Missing]
        IN  Answer("webhook", req, webhook(req, PlainIO))

WebhookUnverified ==
    \E body \in MutatingBodies :
        \E req \in Unverified(Present(body.kind), body) :
            Answer("webhook", req, webhook(req, PlainIO))

GlWebhook ==
    \E req \in GitlabRequests : Answer("gl_webhook", req, gl_webhook(req))

InitStore ==
    /\ namespaces = {"gepetto", "stranger"}
    /\ projects = {[slug |-> "proj", main_namespace |-> "gepetto"]}
    /\ checkSuites = {}
    /\ mirror = NoMirror
    /\ last = [op |-> "none", req |-> <<>>, status |-> 0, handler |-> "none",
               calls |-> <<>>, pre |-> Snapshot]
    /\ contributors = {}
    /\ cnames = EmptyMap
    /\ cmails = EmptyMap
    /\ nextId = 1
    /\ resolved = {}
    /\ db = NoRows
    /\ client = NoCall
    /\ ordering = NoOrdering
    /\ race = NoRace
    /\ links = {}
    /\ branchNames = NoNaming
    /\ named = NoProject
    /\ depTable = NoDeps
    /\ repoTable = NoTable
    /\ branchRow = NoBranchUpdate
    /\ cycle = NoCycle

Init ==
    /\ InitStore
    /\ watched = <<"user", 1>>
    /\ ci = NoCI("get_builds_gitlab")
    /\ pager = NoListing
    /\ history = NoHistory

\* One pair of a project's authorship summary resolved (Project.contributors).
GetContributor(name, mail) ==
    LET r == get_contributor(Store, name, mail)
    IN  /\ contributors' = r.store.contributors
        /\ cnames' = r.store.cnames
        /\ cmails' = r.store.cmails
        /\ nextId' = r.store.nextId
        /\ resolved' = IF mail = watched THEN resolved \cup {name} ELSE resolved
        /\ UNCHANGED watched
        /\ last' = [op |-> "get_contributor", req |-> [name |-> name, mail |-> mail],
                    status |-> r.ret, handler |-> "none", calls |-> <<>>, pre |-> Store]
        /\ UNCHANGED <<hookVars, ciVars, reconVars, clientVars, pagerVars, cycleVars, branchVars, historyVars, tableVars, depVars, nameVars, namingVars, linkVars, raceVars, orderVars>>

\* One reconciliation pass over the listing of a provider.
CIPass(op, listing, r) ==
    /\ ci' = r.c
    /\ last' = [op |-> op, req |-> listing, status |-> IF r.error THEN 500 ELSE 0,
                handler |-> "none", calls |-> <<>>, pre |-> ci]
    /\ UNCHANGED <<hookVars, contribVars, reconVars, clientVars, pagerVars, cycleVars, branchVars, historyVars, tableVars, depVars, nameVars, namingVars, linkVars, raceVars, orderVars>>

GetBuildsGitlab ==
    /\ ci.pass = "get_builds_gitlab"
    /\ \E listing \in Listings(Pipelines, PipelinesOfPairs) :
          CIPass("get_builds_gitlab", listing, get_builds_gitlab(ci, listing))

GetJobsGitlab ==
    /\ ci.pass = "get_jobs_gitlab"
    /\ \E listing \in Listings(Jobs, JobsOfPairs) :
          CIPass("get_jobs_gitlab", listing, get_jobs_gitlab(ci, listing))

GetBuildsGithub ==
    /\ ci.pass = "get_builds_github"
    /\ \E listing \in Listings(TravisBuilds, TravisBuildsOfPairs) :
          CIPass("get_builds_github", listing, get_builds_github(ci, listing))

\* One operation of the reconciliation.  The operation that is followed is
\* recorded in `last`, with the rows it found, and ends the behaviour.
Reconcile(op, req, r) ==
    /\ last.op = "none"
    /\ db' = r.db
    /\ \/ UNCHANGED last
       \/ last' = [op |-> op, req |-> req, status |-> IF r.error THEN 500 ELSE 0,
                   handler |-> "none", calls |-> <<>>, pre |-> db]
    /\ UNCHANGED <<hookVars, contribVars, ciVars, clientVars, pagerVars, cycleVars, branchVars, historyVars, tableVars, depVars, nameVars, namingVars, linkVars, raceVars, orderVars>>

GetProjectsGitlab ==
    \E listing \in {<<>>} \cup {<<d>> : d \in GitlabPayloads}, parent \in ParentResponses :
        Reconcile("get_projects_gitlab", [listing |-> listing, parent |-> parent],
                  get_projects_gitlab(db, listing, parent))

\* The body of the loops of Forge.get_projects_github, for the group namespace.
UpdateGithub ==
    \E data \in GithubPayloads, repo_data \in RepoData :
        /\ "gepetto" \in db.namespaces
        /\ Reconcile("update_github", [namespace |-> "gepetto", data |-> data, repo_data |-> repo_data],
                  update_github(db, "github", "gepetto", data, repo_data))

\* The body of the loops of Forge.get_projects_travis.
UpdateTravis ==
    \E namespace \in db.namespaces, data \in TravisPayloads :
        \E repo_data \in ApiData(<<"github", namespace, "my-proj">>), main_data \in {NoData} :
            Reconcile("update_travis",
                      [namespace |-> namespace, data |-> data, repo_data |-> repo_data, main_data |-> main_data],
                      update_travis(db, namespace, data, repo_data, main_data))

\* A Namespace row is deleted in the admin site.
NamespaceDelete ==
    \E namespace \in db.namespaces :
        /\ last.op = "none"
        /\ db' = namespace_delete(db, namespace)
        /\ UNCHANGED <<last, hookVars, contribVars, ciVars, clientVars, pagerVars, cycleVars, branchVars, historyVars, tableVars, depVars, nameVars, namingVars, linkVars, raceVars, orderVars>>

\* Repo.api_update() as Repo.update calls it: on a Repo whose project has a
\* main namespace.
RepoApiUpdate ==
    \E key \in DOMAIN db.repos :
        /\ db.projects[key[3]].main_namespace # NoNamespace
        /\ \E data \in ApiData(key),
                 main_data \in IF Has(db.repos, MainRepoKey(db, key[3])) THEN {NoData}
                               ELSE ApiData(MainRepoKey(db, key[3])) :
              Reconcile("api_update", [key |-> key, data |-> data, main_data |-> main_data],
                        api_update(db, key, data, main_data))

\* One call of api_req, of a Forge or of a Repo.
ApiReq(who) ==
    \E url \in {"", "/pulls"}, page \in {1, 2}, first \in Outcomes, second \in Outcomes :
        LET net == <<first, second>>
            r == api_req(net)
        IN  /\ client' = [who |-> who, url |-> url, page |-> page, net |-> net,
                          sent |-> r.sent, outcome |-> r.outcome]
            /\ UNCHANGED <<last, hookVars, contribVars, ciVars, reconVars, pagerVars, cycleVars, branchVars, historyVars, tableVars, depVars, nameVars, namingVars, linkVars, raceVars, orderVars>>

ForgeApiReq == ApiReq("Forge")

RepoApiReq == ApiReq("Repo")

\* One call of api_list, of a Forge or of a Repo, consumed to its end.
ApiList(who) ==
    \E name \in {NoName, "builds"} :
        LET provider == pager.provider
            r == api_list(who, name, provider)
        IN  /\ pager' = [who |-> who, name |-> name, provider |-> provider,
                         requested |-> r.requested, yielded |-> r.yielded, raised |-> r.raised]
            /\ UNCHANGED <<last, hookVars, contribVars, ciVars, reconVars, clientVars, cycleVars, branchVars, historyVars, tableVars, depVars, nameVars, namingVars, linkVars, raceVars, orderVars>>

ForgeApiList == ApiList("Forge")

RepoApiList == ApiList("Repo")

\* One Branch.update of the Branch row.
BranchUpdateRun ==
    \E io \in BranchIO :
        LET r == BranchUpdate(branchRow.row, io)
        IN  /\ branchRow' = [row |-> r.row, pre |-> branchRow.row, io |-> io, trace |-> r.trace]
            /\ UNCHANGED <<last, hookVars, contribVars, ciVars, reconVars, clientVars, pagerVars, cycleVars, historyVars, tableVars, depVars, nameVars, namingVars, linkVars, raceVars, orderVars>>

\* One operation of the update cycle on the Repo row.
Cycle(op, req, r) ==
    /\ cycle' = [op |-> op, req |-> req, repo |-> r.repo, trace |-> r.trace, ok |-> r.ok,
                 raised |-> r.raised]
    /\ UNCHANGED <<last, hookVars, contribVars, ciVars, reconVars, clientVars, pagerVars, branchVars, historyVars, tableVars, depVars, nameVars, namingVars, linkVars, raceVars, orderVars>>

RepoFetchRun ==
    /\ cycle.repo
    /\ \E net \in FetchNets : Cycle("Repo.fetch", [net |-> net], RepoFetch(net))

RepoUpdateRun ==
    /\ cycle.repo
    /\ \E orphan \in BOOLEAN, pull \in BOOLEAN, net \in FetchNets, api_raises \in BOOLEAN,
          builds \in BranchPasses :
          LET req == [orphan |-> orphan, pull |-> pull, net |-> net, api_raises |-> api_raises,
                      builds |-> builds]
          IN  Cycle("Repo.update", req, RepoUpdate(req))

ProjectUpdateRun ==
    \E orphan \in BOOLEAN, listed \in BOOLEAN, branches \in BranchPasses, jobs \in BranchPasses :
        LET req == [orphan |-> orphan, listed |-> listed, branches |-> branches, jobs |-> jobs]
        IN  Cycle("Project.update", req, ProjectUpdate(cycle.repo, req))

\* The ahead and behind counts of a branch at commit b against a reference
\* branch at commit m (Branch.update, models.py:683-685), once for a graph.
GetAheadBehind ==
    \E b \in CommitIds, m \in CommitIds :
        /\ history.b = 0
        /\ history' = [graph |-> history.graph, b |-> b, m |-> m,
                       ahead |-> get_ahead(history.graph, b, m),
                       behind |-> get_behind(history.graph, b, m)]
        /\ UNCHANGED <<last, hookVars, contribVars, ciVars, reconVars, clientVars, pagerVars, cycleVars,
                       branchVars, tableVars, depVars, nameVars, namingVars, linkVars, raceVars, orderVars>>

\* One operation on the Repo table.
OnTable(op, key, r) ==
    /\ repoTable.nextId <= MaxRepoId
    /\ repoTable' = [r.t EXCEPT !.op = op, !.key = key, !.returned = r.id, !.raised = r.raised,
                                !.pre = repoTable.rows]
    /\ UNCHANGED <<last, hookVars, contribVars, ciVars, reconVars, clientVars, pagerVars, cycleVars,
                   branchVars, historyVars, depVars, nameVars, namingVars, linkVars, raceVars, orderVars>>

TableGitlab ==
    \E namespace \in {"gepetto", "fork"}, forked \in BOOLEAN :
        OnTable("update_gitlab", <<"gitlab", namespace>>,
                TableUpdateGitlab(repoTable, namespace, forked))

TableGithub == OnTable("update_github", <<"github", "gepetto">>, TableUpdateGithub(repoTable))

TableTravis ==
    /\ repoTable.project
    /\ \E namespace \in {"gepetto", "fork"}, data \in NewRepoAnswers :
          OnTable("update_travis", <<"github", namespace>>,
                  TableCreateAndUpdate(repoTable, <<"github", namespace>>, data))

TableBranches ==
    /\ repoTable.main # <<>>
    /\ \E key \in RepoKeys, data \in NewRepoAnswers :
          OnTable("update_branches", key, TableCreateAndUpdate(repoTable, key, data))

TableMain ==
    /\ repoTable.main # <<>>
    /\ \E data \in NewRepoAnswers :
          OnTable("main_repo", repoTable.main, TableMainRepo(repoTable, data))

\* Repo.get_builds on a row: it creates Branch and CIBuild rows, no Repo.
TableBuilds ==
    \E r \in repoTable.rows :
        OnTable("get_builds", r.key, [t |-> repoTable, id |-> r.id, raised |-> FALSE])

\* Repo.update on a row whose remote cannot be fetched: self.delete()
TableDelete ==
    /\ repoTable.main # <<>>
    /\ \E r \in repoTable.rows :
          OnTable("delete", r.key, [t |-> [repoTable EXCEPT !.rows = @ \ {r}], id |-> r.id,
                                    raised |-> FALSE])

\* One reading of a manifest of a project.
OnDeps(op, self, manifest, t) ==
    /\ depTable' = [t EXCEPT !.op = op, !.self = self, !.manifest = manifest]
    /\ UNCHANGED <<last, hookVars, contribVars, ciVars, reconVars, clientVars, pagerVars, cycleVars,
                   branchVars, historyVars, tableVars, nameVars, namingVars, linkVars, raceVars, orderVars>>

ProjectCmake ==
    \E self \in DepProjects, manifest \in Manifests :
        OnDeps("cmake", self, manifest, cmake(depTable, self, manifest))

ProjectRos ==
    \E self \in DepProjects, manifest \in {m \in Manifests : m.name = NoContent} :
        OnDeps("ros", self, manifest, ros(depTable, self, manifest))

\* The two endpoints with every kind of request, in the plain world.
Next ==
    \/ \E forge \in {"github", "gitlab"} : RepoGit(forge)
    \/ WebhookDelivery
    \/ WebhookNotFound
    \/ WebhookOther
    \/ WebhookUnverified
    \/ WebhookFailing
    \/ GlWebhook

Spec == Init /\ [][Next]_vars

\* The push handler with everything the fetches of the two forges can report.
NextPush ==
    \/ \E forge \in {"github", "gitlab"} : RepoGit(forge)
    \/ WebhookPush

SpecPush == Init /\ [][NextPush]_vars

\* The pull_request handler with everything its fetch can report.
NextPullRequest ==
    \/ \E forge \in {"github", "gitlab"} : RepoGit(forge)
    \/ WebhookPullRequest

SpecPullRequest == Init /\ [][NextPullRequest]_vars

\* The contributor resolver over every sequence of calls.
NextContrib == \E name \in Names, mail \in Mails : GetContributor(name, mail)

\* Any mail may be the one that is followed.
InitContrib ==
    /\ InitStore
    /\ watched \in Mails
    /\ ci = NoCI("get_builds_gitlab")
    /\ pager = NoListing
    /\ history = NoHistory

SpecContrib == InitContrib /\ [][NextContrib]_vars

\* The CI reconciliation of one Repo, for each of the three passes.
NextCI == GetBuildsGitlab \/ GetJobsGitlab \/ GetBuildsGithub

InitCI ==
    /\ InitStore
    /\ watched = <<"user", 1>>
    /\ ci \in {NoCI(pass) : pass \in {"get_builds_gitlab", "get_jobs_gitlab", "get_builds_github"}}
    /\ pager = NoListing
    /\ history = NoHistory

SpecCI == InitCI /\ [][NextCI]_vars

\* The reconciliation engine over every sequence of its operations.
NextRecon == GetProjectsGitlab \/ UpdateGithub \/ UpdateTravis \/ RepoApiUpdate

SpecRecon == Init /\ [][NextRecon]_vars

\* The reconciliation of the two forges with Namespace rows deleted in between.
NextOrphan == GetProjectsGitlab \/ UpdateGithub \/ NamespaceDelete

SpecOrphan == Init /\ [][NextOrphan]_vars

\* The API client over every answer of the network.
NextClient == ForgeApiReq \/ RepoApiReq

SpecClient == Init /\ [][NextClient]_vars

\* The pagination over every provider, any number of calls on each.
NextPager == ForgeApiList \/ RepoApiList

InitPager ==
    /\ InitStore
    /\ watched = <<"user", 1>>
    /\ ci = NoCI("get_builds_gitlab")
    /\ pager \in {NoListingOf(provider) : provider \in Providers}
    /\ history = NoHistory

SpecPager == InitPager /\ [][NextPager]_vars

\* The updates of one Branch row, whatever the git backend does.
NextBranch == BranchUpdateRun

SpecBranch == Init /\ [][NextBranch]_vars

\* The update cycle of a project and of the Repo row of one of its remotes.
NextCycle == RepoFetchRun \/ RepoUpdateRun \/ ProjectUpdateRun

SpecCycle == Init /\ [][NextCycle]_vars

\* The ahead/behind counts over every commit graph and pair of commits.
NextHistory == GetAheadBehind

InitHistory ==
    /\ InitStore
    /\ watched = <<"user", 1>>
    /\ ci = NoCI("get_builds_gitlab")
    /\ pager = NoListing
    /\ history \in {NoHistoryOf(graph) : graph \in Graphs}

SpecHistory == InitHistory /\ [][NextHistory]_vars

\* The operations that create, get and delete the Repo rows of a project.
NextTable ==
    \/ TableGitlab
    \/ TableGithub
    \/ TableTravis
    \/ TableBranches
    \/ TableMain
    \/ TableBuilds
    \/ TableDelete

SpecTable == Init /\ [][NextTable]_vars

\* The manifests of the projects read in any order.
NextDeps == ProjectCmake \/ ProjectRos

SpecDeps == Init /\ [][NextDeps]_vars

\* A Project is made with a name the forge or the administrator gives.
ProjectNew ==
    \E x \in RawNames :
        /\ named.saves = 0
        /\ named' = [given |-> x, name |-> x, saves |-> 0, first |-> <<>>]
        /\ UNCHANGED <<last, hookVars, contribVars, ciVars, reconVars, clientVars, pagerVars, cycleVars,
                       branchVars, historyVars, tableVars, depVars, namingVars, linkVars, raceVars, orderVars>>

\* The row is saved, the name as Project.save leaves it.
Saved(name) ==
    /\ named.saves < MaxLen
    /\ named' = [named EXCEPT !.name = name, !.saves = @ + 1,
                              !.first = IF named.saves = 0 THEN name ELSE @]
    /\ UNCHANGED <<last, hookVars, contribVars, ciVars, reconVars, clientVars, pagerVars, cycleVars,
                   branchVars, historyVars, tableVars, depVars, namingVars, linkVars, raceVars, orderVars>>

\* Project.save()
ProjectSave == Saved(SavedName(named.name))

\* fix_unvalid_projects, for a row that unvalid_projects selects.
FixUnvalidProjects ==
    /\ Unvalid(named.name)
    /\ Saved(SavedName(normalize(named.name)))

NextName == ProjectNew \/ ProjectSave \/ FixUnvalidProjects

SpecName == Init /\ [][NextName]_vars

\* Project.update_branches over a listing of the branches of the mirror.
ProjectUpdateBranches ==
    \E first \in BranchLines, second \in BranchLines, main \in BOOLEAN :
        /\ branchNames' = update_branches(branchNames, <<first, second>>, main)
        /\ UNCHANGED <<last, hookVars, contribVars, ciVars, reconVars, clientVars, pagerVars, cycleVars,
                       branchVars, historyVars, tableVars, depVars, nameVars, linkVars, raceVars, orderVars>>

\* Branch.git() of a Branch row: one that update_branches or get_builds
\* made, or one that was entered with any name.
BranchGit ==
    \E name \in branchNames.branches \cup {StripRemotes(line) : line \in BranchLines} :
        /\ branchNames' = branch_git(branchNames, name)
        /\ UNCHANGED <<last, hookVars, contribVars, ciVars, reconVars, clientVars, pagerVars, cycleVars,
                       branchVars, historyVars, tableVars, depVars, nameVars, linkVars, raceVars, orderVars>>

NextNaming == ProjectUpdateBranches \/ BranchGit

SpecNaming == Init /\ [][NextNaming]_vars

\* One line of the shortlog of `project` in Project.contributors(update=True):
\* the pair is resolved and the project is added to the Contributor.
ProjectContributors ==
    \E project \in LinkProjects, name \in Names, mail \in Mails :
        LET r == get_contributor(Store, name, mail)
        IN  /\ contributors' = r.store.contributors
            /\ cnames' = r.store.cnames
            /\ cmails' = r.store.cmails
            /\ nextId' = r.store.nextId
            /\ links' = ProjectsAdd(LinksAfterDelete(links, r.store.contributors), r.ret, project)
            /\ last' = [op |-> "contributors", req |-> [name |-> name, mail |-> mail, project |-> project],
                        status |-> r.ret, handler |-> "none", calls |-> <<>>,
                        pre |-> [store |-> Store, links |-> links]]
            /\ UNCHANGED <<watched, resolved>>
            /\ UNCHANGED <<hookVars, ciVars, reconVars, clientVars, pagerVars, cycleVars, branchVars,
                           historyVars, tableVars, depVars, nameVars, namingVars, raceVars, orderVars>>

NextLinks == ProjectContributors

SpecLinks == Init /\ [][NextLinks]_vars

\* A pair resolved by a whole call before the two calls are issued.
RacePrior ==
    \E name \in Names, mail \in Mails :
        /\ \A p \in Callers : race.calls[p].pc = "idle"
        /\ race.prior < MaxPrior
        /\ race' = [race EXCEPT !.store = get_contributor(@, name, mail).store, !.prior = @ + 1]
        /\ UNCHANGED <<last, hookVars, contribVars, ciVars, reconVars, clientVars, pagerVars, cycleVars,
                       branchVars, historyVars, tableVars, depVars, nameVars, namingVars, linkVars, orderVars>>

\* The contributor updates of two Projects each meet the same pair.
RaceIssue ==
    \E name \in Names, mail \in Mails :
        /\ \A p \in Callers : race.calls[p].pc = "idle"
        /\ race' = [race EXCEPT !.name = name, !.mail = mail,
                                !.calls = [p \in Callers |-> [Idle EXCEPT !.pc = "get_name"]]]
        /\ UNCHANGED <<last, hookVars, contribVars, ciVars, reconVars, clientVars, pagerVars, cycleVars,
                       branchVars, historyVars, tableVars, depVars, nameVars, namingVars, linkVars, orderVars>>

\* The next datastore operation of one of the two calls.
RaceStep(p) ==
    LET l == race.calls[p]
        r == CASE l.pc = "get_name" -> GetOrCreateName(race.store, l, race.name)
               [] l.pc = "get_mail" -> GetOrCreateMail(race.store, l, race.mail)
               [] OTHER -> RaceOp(race.store, l, race.name, race.mail)
    IN  /\ l.pc \in {"get_name", "get_mail", "ops"}
        /\ race' = [race EXCEPT !.store = r.store, !.calls[p] = r.local,
                                !.overlapped = @ \/ \E q \in Callers \ {p} :
                                                        race.calls[q].pc \in {"get_mail", "ops"}]
        /\ UNCHANGED <<last, hookVars, contribVars, ciVars, reconVars, clientVars, pagerVars, cycleVars,
                       branchVars, historyVars, tableVars, depVars, nameVars, namingVars, linkVars, orderVars>>

NextRace == RacePrior \/ RaceIssue \/ \E p \in Callers : RaceStep(p)

SpecRace == Init /\ [][NextRace]_vars

\* ordered_projects up to its loop: main, ret and rest are computed.
OrderedProjectsBegin ==
    \E t \in DependencyTables :
        /\ ordering.pc = "idle"
        /\ ordering' = [pc |-> "loop", table |-> t, ret |-> WithoutDependencies(t),
                        rest |-> MainProjects(t) \ WithoutDependencies(t), rounds |-> 0]
        /\ UNCHANGED <<last, hookVars, contribVars, ciVars, reconVars, clientVars, pagerVars, cycleVars,
                       branchVars, historyVars, tableVars, depVars, nameVars, namingVars, linkVars, raceVars>>

\* One round of `while rest.exists()`.
OrderedProjectsRound ==
    /\ ordering.pc = "loop"
    /\ ordering.rest # {}
    /\ LET new_ret == NewRet(ordering.table, ordering.ret, ordering.rest)
       IN  ordering' = [ordering EXCEPT !.ret = @ \cup new_ret, !.rest = @ \ new_ret,
                                         !.rounds = IF new_ret = {} THEN @ ELSE @ + 1]
    /\ UNCHANGED <<last, hookVars, contribVars, ciVars, reconVars, clientVars, pagerVars, cycleVars,
                   branchVars, historyVars, tableVars, depVars, nameVars, namingVars, linkVars, raceVars>>

\* The loop is left, and the list is returned.
OrderedProjectsEnd ==
    /\ ordering.pc = "loop"
    /\ ordering.rest = {}
    /\ ordering' = [ordering EXCEPT !.pc = "done"]
    /\ UNCHANGED <<last, hookVars, contribVars, ciVars, reconVars, clientVars, pagerVars, cycleVars,
                   branchVars, historyVars, tableVars, depVars, nameVars, namingVars, linkVars, raceVars>>

NextOrder == OrderedProjectsBegin \/ OrderedProjectsRound \/ OrderedProjectsEnd

SpecOrder == Init /\ [][NextOrder]_vars

\* The call runs on: a round that can be taken is taken.
SpecOrderFair == SpecOrder /\ WF_vars(OrderedProjectsRound) /\ WF_vars(OrderedProjectsEnd)

(* ============================ the claims ================================ *)
\* What the last request left unchanged.
MirrorUntouched == mirror = last.pre.mirror
StoreUntouched == checkSuites = last.pre.suites
CallsOf(op) == {i \in 1..Len(last.calls) : last.calls[i].op = op}

\* The source verification of a GitHub request fails in one of the ways the
\* webhook relay names: the address is outside the published networks, the
\* signature is missing, its algorithm is not sha1, its digest is not the
\* HMAC of the body under the shared secret.
GithubSourceFailure(req) ==
    \/ req.fwd # Missing /\ \A net \in GithubHooks : ~InNetwork(req.fwd[1], net)
    \/ req.sig = Missing
    \/ req.sig # Missing /\ Len(req.sig[1]) = 2 /\ req.sig[1][1] # "sha1"
    \/ req.sig # Missing /\ Len(req.sig[1]) = 2
          /\ req.sig[1][2] # HmacSha1(GITHUB_WEBHOOK_KEY, req.body)

\* A GitHub request that does not pass the verification, malformed ones included.
GithubUnverified(req) ==
    \/ GithubSourceFailure(req)
    \/ req.fwd = Missing
    \/ req.sig # Missing /\ Len(req.sig[1]) # 2

\* The same for a GitLab request: address outside the internal range, token
\* missing, token different from the shared one.
GitlabSourceFailure(req) ==
    \/ req.fwd = Missing
    \/ req.fwd # Missing /\ ~InNetwork(req.fwd[1], LaasNetwork)
    \/ req.token = Missing
    \/ req.token # Missing /\ req.token[1] # GITLAB_WEBHOOK_KEY

Rejections == {302, 403, 501}

\* C1: on both endpoints a request whose source verification fails is
\* answered with a rejection (302, 403 or 501), no handler runs and no call
\* is made, and the check-suite rows and the mirror (its refs, its remotes)
\* are what they were before the request; a malformed request (no
\* X-Forwarded-For, a signature without '=') changes nothing either.
C1_UnverifiedIsRejectedUnchanged ==
    /\ (last.op = "webhook" /\ GithubSourceFailure(last.req)) => last.status \in Rejections
    /\ (last.op = "webhook" /\ GithubUnverified(last.req)) =>
          /\ last.handler = "none" /\ last.calls = <<>>
          /\ MirrorUntouched /\ StoreUntouched
    /\ (last.op = "gl_webhook" /\ GitlabSourceFailure(last.req)) =>
          /\ last.status \in Rejections
          /\ last.handler = "none" /\ last.calls = <<>>
          /\ MirrorUntouched /\ StoreUntouched

\* A forged push, refused where the push itself would have created branches.
C1_Witness ==
    /\ last.op = "webhook"
    /\ last.req.body = PushBody("Gepetto", <<"x">>, 1)
    /\ last.req.sig = Present(<<"sha1", HmacSha1("guess", last.req.body)>>)
    /\ last.status = 403
    /\ <<"github", "gepetto">> \in mirror.remotes
    /\ mirror.heads = EmptyMap

(* ------------------------------- push ----------------------------------- *)
\* The last request is a push that the push handler took, for branch R of
\* the project of namespace ns.
LastPush == last.op = "webhook" /\ last.handler = "push"
LastRef == SubSeq(last.req.body.ref, 3, Len(last.req.body.ref))
LastNs == "gepetto"
GhRemote == <<"github", LastNs>>
GlRemote == <<"gitlab", LastNs>>
\* The handler fetched the remote.
Fetched(remote) == \E i \in CallsOf("fetch") : last.calls[i].remote = remote
HeadsUntouched == mirror.heads = last.pre.mirror.heads

\* C2: a push whose `after` is not the zero SHA and differs from the tip of
\* the fetched GitHub ref is answered 400; no local branch is created, moved
\* or deleted and nothing is pushed to GitLab.
C2_ShaMismatchIsRefused ==
    (/\ LastPush
     /\ last.req.body.after # ZeroSha
     /\ Fetched(GhRemote)
     /\ Has(mirror.refs, <<GhRemote, LastRef>>)
     /\ mirror.refs[<<GhRemote, LastRef>>] # last.req.body.after)
    => /\ last.status = 400
       /\ HeadsUntouched
       /\ CallsOf("push") = {} /\ CallsOf("create_head") = {}
       /\ CallsOf("set_commit") = {} /\ CallsOf("delete_head") = {}

\* A mismatch met by a mirror that has local branches to lose.
C2_Witness ==
    /\ LastPush
    /\ last.status = 400
    /\ last.req.body.after = 2
    /\ mirror.refs[<<GhRemote, LastRef>>] = 1
    /\ Has(mirror.heads, LastRef)
    /\ GlRemote \in mirror.remotes

\* The three local branches of a push of R: github/ns/R, gitlab/ns/R and R.
GhHead == GhRemote \o LastRef
GlHead == GlRemote \o LastRef
ThreeHeads == {GhHead, GlHead, LastRef}
PointsAt(name, sha) == Has(mirror.heads, name) /\ mirror.heads[name] = sha

\* C3 (as claimed): a push with the zero SHA for refs/heads/R, for a project
\* whose mirror has the GitHub remote and could fetch it, deletes those of
\* github/ns/R, gitlab/ns/R and R that exist and no other branch, issues
\* exactly one DELETE to the GitLab branches API for R, pushes nothing and
\* answers 200.
C3_DeleteScenario ==
    (/\ LastPush
     /\ last.req.body.after = ZeroSha
     /\ Fetched(GhRemote))
    => /\ last.status = 200
       /\ mirror.heads = [n \in (DOMAIN last.pre.mirror.heads) \ ThreeHeads |-> last.pre.mirror.heads[n]]
       /\ Cardinality(CallsOf("api_delete")) = 1
       /\ \A i \in CallsOf("api_delete") : last.calls[i].branch = LastRef
       /\ CallsOf("push") = {}

\* C4 (as claimed): a successful push whose fetched GitHub tip equals `after`
\* leaves github/ns/R, R and gitlab/ns/R all pointing at `after`.
C4_ThreeRefsAtAfter ==
    (/\ LastPush
     /\ last.req.body.after # ZeroSha
     /\ last.status = 200
     /\ mirror.refs[<<GhRemote, LastRef>>] = last.req.body.after)
    => \A n \in ThreeHeads : PointsAt(n, last.req.body.after)

\* C4 (amended): a successful push whose fetched GitHub tip equals `after`
\* leaves github/ns/R and R pointing at `after`; gitlab/ns/R points at
\* `after` too when the mirror has the gitlab/ns remote, and is left as it
\* was when it has not.
C4_RefsAtAfterWhenMirrored ==
    (/\ LastPush
     /\ last.req.body.after # ZeroSha
     /\ last.status = 200)
    => /\ mirror.refs[<<GhRemote, LastRef>>] = last.req.body.after
       /\ PointsAt(GhHead, last.req.body.after)
       /\ PointsAt(LastRef, last.req.body.after)
       /\ GlRemote \in mirror.remotes => PointsAt(GlHead, last.req.body.after)
       /\ GlRemote \notin mirror.remotes =>
             /\ Has(mirror.heads, GlHead) = Has(last.pre.mirror.heads, GlHead)
             /\ Has(mirror.heads, GlHead) => mirror.heads[GlHead] = last.pre.mirror.heads[GlHead]

\* The three branches were at another commit and were moved.
C4_Witness ==
    /\ LastPush
    /\ last.status = 200
    /\ last.req.body.after = 2
    /\ GlRemote \in mirror.remotes
    /\ \A n \in ThreeHeads : Has(last.pre.mirror.heads, n) /\ last.pre.mirror.heads[n] = 1
    /\ \A n \in ThreeHeads : PointsAt(n, 2)

\* C5: in the non-delete path of a push that reaches GitLab, the GitLab
\* remote is fetched after every update of a local branch, and R is pushed
\* to GitLab, after that fetch, exactly when the fetched GitLab ref R is
\* absent or its tip is not `after`.
C5_FetchThenPushIfDiffers ==
    (/\ LastPush
     /\ last.req.body.after # ZeroSha
     /\ last.status = 200
     /\ GlRemote \in mirror.remotes)
    => LET glFetch == {i \in CallsOf("fetch") : last.calls[i].remote = GlRemote}
           updates == CallsOf("create_head") \cup CallsOf("set_commit")
           differs == \/ ~Has(mirror.refs, <<GlRemote, LastRef>>)
                      \/ mirror.refs[<<GlRemote, LastRef>>] # last.req.body.after
       IN  /\ Cardinality(glFetch) = 1
           /\ Cardinality(updates) = 3
           /\ \A f \in glFetch, u \in updates : u < f
           /\ differs <=> Cardinality(CallsOf("push")) = 1
           /\ ~differs <=> CallsOf("push") = {}
           /\ \A i \in CallsOf("push"), f \in glFetch :
                 /\ f < i
                 /\ last.calls[i].remote = GlRemote
                 /\ last.calls[i].ref = LastRef

\* GitLab already has `after`: nothing is pushed.
C5_Witness ==
    /\ LastPush
    /\ last.status = 200
    /\ last.req.body.after = 2
    /\ Has(mirror.refs, <<GlRemote, LastRef>>)
    /\ mirror.refs[<<GlRemote, LastRef>>] = 2
    /\ CallsOf("push") = {}
    /\ Fetched(GlRemote)

(* --------------------------- pull_request ------------------------------- *)
LastPullRequest == last.op = "webhook" /\ last.handler = "pull_request"
LastPRBranch == <<"pr", last.req.body.number>>
HeadRemote == <<"github", last.req.body.head_login>>

\* The commit is one the mirror already has: a local branch points at it.
CommitInMirror(sha) ==
    \E b \in DOMAIN last.pre.mirror.heads : last.pre.mirror.heads[b] = sha

\* C6: a pull_request for PR N with head S, where pr/N already exists, S is
\* a commit the mirror has, the head remote is fetched and the gitlab/ns
\* remote is there, succeeds with the remote of the head repository's owner
\* in place (created only if absent), pr/N moved to S and pushed once to
\* gitlab/ns, in the order ensure-remote, fetch, set branch, push.
C6_PullRequestSetsBranch ==
    (/\ LastPullRequest
     /\ last.status # 404
     /\ Fetched(HeadRemote)
     /\ GlRemote \in last.pre.mirror.remotes
     /\ Has(last.pre.mirror.heads, LastPRBranch)
     /\ CommitInMirror(last.req.body.head_sha))
    => LET made == CallsOf("create_remote")
           fetch == CallsOf("fetch")
           set == CallsOf("create_head") \cup CallsOf("set_commit")
           pushes == CallsOf("push")
       IN  /\ last.status = 200
           /\ HeadRemote \in mirror.remotes
           /\ (made # {}) <=> (HeadRemote \notin last.pre.mirror.remotes)
           /\ PointsAt(LastPRBranch, last.req.body.head_sha)
           /\ Cardinality(fetch) = 1 /\ Cardinality(set) = 1 /\ Cardinality(pushes) = 1
           /\ \A m \in made, f \in fetch : m < f
           /\ \A f \in fetch, b \in set : f < b
           /\ \A b \in set, q \in pushes : b < q
           /\ \A q \in pushes : last.calls[q].remote = GlRemote /\ last.calls[q].ref = LastPRBranch

(* ----------------------------- not found -------------------------------- *)
\* The payload of the last request names an owner with no Namespace row, or
\* a project with no Project row in that namespace.
LastNamesUnknown ==
    \/ slugify(last.req.body.owner) \notin namespaces
    \/ [slug |-> slugify(last.req.body.name), main_namespace |-> slugify(last.req.body.owner)]
          \notin projects

\* C7: a push, pull_request or pipeline request for an unknown namespace or
\* project is answered 404 before the mirror is opened: no call is made, the
\* mirror is not initialised and no ref, remote or row changes.
C7_UnknownProjectIsNotFound ==
    (/\ last.op \in {"webhook", "gl_webhook"}
     /\ last.handler \in {"push", "pull_request", "pipeline"}
     /\ LastNamesUnknown)
    => /\ last.status = 404
       /\ last.calls = <<>>
       /\ MirrorUntouched /\ StoreUntouched

\* A push for a namespace that has no such project, while the mirror of no
\* project is on disk.
C7_Witness ==
    /\ last.op = "webhook" /\ last.handler = "push"
    /\ last.req.body.owner = "stranger"
    /\ last.status = 404
    /\ ~mirror.exists

(* ------------------- missing and invalid credentials --------------------- *)
\* A request whose address passes and whose signature or token is missing,
\* and one whose signature or token is there and wrong.
GithubSigMissing(req) ==
    /\ req.fwd # Missing /\ \E net \in GithubHooks : InNetwork(req.fwd[1], net)
    /\ req.sig = Missing
GithubSigInvalid(req) ==
    /\ req.fwd # Missing /\ \E net \in GithubHooks : InNetwork(req.fwd[1], net)
    /\ req.sig # Missing /\ Len(req.sig[1]) = 2 /\ req.sig[1][1] = "sha1"
    /\ req.sig[1][2] # HmacSha1(GITHUB_WEBHOOK_KEY, req.body)
GitlabTokenMissing(req) ==
    /\ req.fwd # Missing /\ InNetwork(req.fwd[1], LaasNetwork)
    /\ req.token = Missing
GitlabTokenInvalid(req) ==
    /\ req.fwd # Missing /\ InNetwork(req.fwd[1], LaasNetwork)
    /\ req.token # Missing /\ req.token[1] # GITLAB_WEBHOOK_KEY

\* C8 (as claimed): a request without signature (token) gets the response
\* that the same request with an invalid signature (token) gets, and neither
\* is dispatched.
C8_MissingSameAsInvalid ==
    /\ (last.op = "webhook" /\ GithubSigMissing(last.req)) =>
          /\ last.handler = "none"
          /\ LET forged == [last.req EXCEPT !.sig = Present(<<"sha1", HmacSha1("guess", last.req.body)>>)]
                 o == webhook(forged, PlainIO)
             IN  o.handler = "none" /\ o.status = last.status
    /\ (last.op = "gl_webhook" /\ GitlabTokenMissing(last.req)) =>
          /\ last.handler = "none"
          /\ LET forged == [last.req EXCEPT !.token = Present("guess")]
                 o == gl_webhook(forged)
             IN  o.handler = "none" /\ o.status = last.status

\* C8 (amended): on both endpoints a request without signature (token) is
\* redirected to the login page (302) and a request with an invalid one is
\* forbidden (403); neither is dispatched to a handler and neither changes
\* the mirror or a row.
C8_MissingAndInvalidBothRejected ==
    /\ (last.op = "webhook" /\ GithubSigMissing(last.req)) => last.status = 302
    /\ (last.op = "webhook" /\ GithubSigInvalid(last.req)) => last.status = 403
    /\ (last.op = "gl_webhook" /\ GitlabTokenMissing(last.req)) => last.status = 302
    /\ (last.op = "gl_webhook" /\ GitlabTokenInvalid(last.req)) => last.status = 403
    /\ (\/ last.op = "webhook" /\ (GithubSigMissing(last.req) \/ GithubSigInvalid(last.req))
        \/ last.op = "gl_webhook" /\ (GitlabTokenMissing(last.req) \/ GitlabTokenInvalid(last.req)))
       => /\ last.handler = "none" /\ last.calls = <<>>
          /\ MirrorUntouched /\ StoreUntouched

\* A GitLab request without token, redirected.
C8_Witness ==
    /\ last.op = "gl_webhook"
    /\ GitlabTokenMissing(last.req)
    /\ last.status = 302
    /\ last.req.event = Present("Pipeline Hook")

(* ----------------------- contributor resolution -------------------------- *)
LastResolve == last.op = "get_contributor"

\* C9 (as claimed): once get_contributor(B, M) returns, the name row of
\* every name A resolved with the mail M before it has the Contributor of
\* the name row of B.
C9_SameMailSameContributor ==
    (LastResolve /\ last.req.mail = watched)
    => \A A \in resolved :
          /\ Has(cnames, A) /\ Has(cnames, last.req.name)
          /\ cnames[A].contributor = cnames[last.req.name].contributor

\* C9 (amended): for a mail M that is not classified invalid, the name rows
\* of all the names resolved with M so far are linked to one Contributor,
\* which is also the Contributor of the mail row of M, whatever other pairs
\* were resolved before or between them.
C9_SameValidMailSameContributor ==
    ~invalid_mail(watched)
    => \A A \in resolved :
          /\ Has(cnames, A) /\ Has(cmails, watched)
          /\ cnames[A].contributor # Null
          /\ cnames[A].contributor \in contributors
          /\ cnames[A].contributor = cmails[watched].contributor

\* Two names resolved with a valid mail, the later one being a name that was
\* linked to another Contributor than the mail when it was resolved.
C9_Witness ==
    /\ LastResolve /\ last.req.mail = watched
    /\ ~invalid_mail(watched)
    /\ Cardinality(resolved) >= 2
    /\ Has(last.pre.cnames, last.req.name) /\ Has(last.pre.cmails, watched)
    /\ last.pre.cnames[last.req.name].contributor # last.pre.cmails[watched].contributor

(* -------------------------- contributor merge ---------------------------- *)
\* The last call found the name row linked to one Contributor and the mail
\* row linked to another one.
FoundTwoContributors ==
    /\ LastResolve
    /\ Has(last.pre.cnames, last.req.name) /\ Has(last.pre.cmails, last.req.mail)
    /\ last.pre.cnames[last.req.name].contributor # Null
    /\ last.pre.cmails[last.req.mail].contributor # Null
    /\ last.pre.cnames[last.req.name].contributor # last.pre.cmails[last.req.mail].contributor

\* One Contributor of the two survives, the lower id, with every row that
\* was linked to either; no name or mail row is deleted, the other rows keep
\* their link and the other Contributor is gone.
MergedIntoLower ==
    LET c1 == last.pre.cnames[last.req.name].contributor
        c2 == last.pre.cmails[last.req.mail].contributor
        low == IF c1 < c2 THEN c1 ELSE c2
        high == IF c1 < c2 THEN c2 ELSE c1
        Kept(before, after) ==
            /\ DOMAIN after = DOMAIN before
            /\ \A k \in DOMAIN before :
                  after[k].contributor = IF before[k].contributor \in {c1, c2}
                                         THEN low
                                         ELSE before[k].contributor
    IN  /\ contributors = last.pre.contributors \ {high}
        /\ low \in contributors
        /\ Kept(last.pre.cnames, cnames)
        /\ Kept(last.pre.cmails, cmails)
        /\ last.status = low

\* C10 (as claimed): whenever get_contributor finds the name row and the
\* mail row linked to two different Contributors, the two are merged into
\* the one with the lower id.
C10_MergeKeepsLower == FoundTwoContributors => MergedIntoLower

\* C10 (amended): when get_contributor finds the name row and the mail row
\* linked to two different Contributors and the mail is not classified
\* invalid, the two are merged into the one with the lower id, which holds
\* the union of their rows; no row is deleted and the other Contributor no
\* longer exists.
C10_MergeKeepsLowerValidMail ==
    (FoundTwoContributors /\ ~invalid_mail(last.req.mail)) => MergedIntoLower

\* A merge that moved a name row and a mail row other than those of the
\* call to the surviving Contributor.
C10_Witness ==
    /\ FoundTwoContributors /\ ~invalid_mail(last.req.mail)
    /\ contributors # last.pre.contributors
    /\ \E n \in DOMAIN cnames : n # last.req.name /\ cnames[n] # last.pre.cnames[n]

(* ------------------------ contributor allocation ------------------------- *)
NameCreated == ~Has(last.pre.cnames, last.req.name)
MailCreated == ~Has(last.pre.cmails, last.req.mail)

\* C11: get_contributor allocates a Contributor exactly when the call
\* created both the name row and the mail row, and then both rows are linked
\* to it; when the call created one of the two rows, that row gets the
\* Contributor the other row had, the other row keeps it and no Contributor
\* is allocated.
C11_AllocatesIffBothCreated ==
    LastResolve =>
       LET name == last.req.name
           mail == last.req.mail
           fresh == contributors \ last.pre.contributors
       IN  /\ (fresh # {}) <=> (NameCreated /\ MailCreated)
           /\ (NameCreated /\ MailCreated) =>
                 /\ fresh = {last.pre.nextId}
                 /\ cnames[name].contributor = last.pre.nextId
                 /\ cmails[mail].contributor = last.pre.nextId
                 /\ last.status = last.pre.nextId
           /\ (NameCreated /\ ~MailCreated) =>
                 /\ cnames[name].contributor = last.pre.cmails[mail].contributor
                 /\ cmails[mail] = last.pre.cmails[mail]
                 /\ contributors = last.pre.contributors
           /\ (~NameCreated /\ MailCreated) =>
                 /\ cmails[mail].contributor = last.pre.cnames[name].contributor
                 /\ cnames[name] = last.pre.cnames[name]
                 /\ contributors = last.pre.contributors

\* A new name resolved with a mail that already had a Contributor.
C11_Witness ==
    /\ LastResolve
    /\ NameCreated /\ ~MailCreated
    /\ contributors = last.pre.contributors
    /\ cnames[last.req.name].contributor \in contributors

(* --------------------------- invalid mails ------------------------------- *)
\* C12: a get_contributor call whose mail is classified invalid deletes no
\* Contributor and leaves every name row and mail row that was linked to a
\* Contributor linked to that Contributor.
C12_InvalidMailNeverMerges ==
    (LastResolve /\ invalid_mail(last.req.mail)) =>
       /\ last.pre.contributors \subseteq contributors
       /\ \A n \in DOMAIN last.pre.cnames :
             last.pre.cnames[n].contributor # Null =>
                Has(cnames, n) /\ cnames[n].contributor = last.pre.cnames[n].contributor
       /\ \A m \in DOMAIN last.pre.cmails :
             last.pre.cmails[m].contributor # Null =>
                Has(cmails, m) /\ cmails[m].contributor = last.pre.cmails[m].contributor

\* An invalid mail resolved with a name of another Contributor, both rows
\* being there already.
C12_Witness ==
    /\ LastResolve /\ invalid_mail(last.req.mail)
    /\ ~NameCreated /\ ~MailCreated
    /\ last.pre.cnames[last.req.name].contributor # last.pre.cmails[last.req.mail].contributor
    /\ last.pre.cnames[last.req.name].contributor # Null
    /\ last.pre.cmails[last.req.mail].contributor # Null

(* --------------------------- CI status tables ---------------------------- *)
\* The tri-state the status tables of the specification give.
TravisTable ==
    [s \in {"created", "passed", "started", "failed", "errored", "canceled"} |->
        CASE s = "passed" -> "True"
          [] s \in {"failed", "errored"} -> "False"
          [] OTHER -> "None"]
GitlabTable ==
    [s \in {"failed", "success", "pending", "skipped", "canceled", "running"} |->
        CASE s = "success" -> "True"
          [] s = "failed" -> "False"
          [] OTHER -> "None"]

\* The rows the last pass wrote and the table it reads.
LastCIPass == last.op \in {"get_builds_gitlab", "get_jobs_gitlab", "get_builds_github"}
LastRows == IF last.op = "get_jobs_gitlab" THEN ci.jobs ELSE ci.builds
LastPreRows == IF last.op = "get_jobs_gitlab" THEN last.pre.jobs ELSE last.pre.builds
LastTable == IF last.op = "get_builds_github" THEN TravisTable ELSE GitlabTable

\* An entry of the listing that the pass does not skip.
Reported(e) == e.ref = BranchRef

\* C13: a pass that ends without error has met only statuses of its table,
\* and every row it created has the tri-state that the table of the
\* specification gives to a status the listing reports for it; a pass over
\* a listing with a status outside the table ends with an error.
C13_StatusTablesMatch ==
    LastCIPass =>
       /\ (last.status = 0) =>
             /\ \A i \in 1..Len(last.req) :
                   Reported(last.req[i]) => last.req[i].status \in DOMAIN LastTable
             /\ \A id \in (DOMAIN LastRows) \ (DOMAIN LastPreRows) :
                   \E i \in 1..Len(last.req) :
                      /\ Reported(last.req[i]) /\ last.req[i].id = id
                      /\ LastRows[id] = LastTable[last.req[i].status]
       /\ (\E i \in 1..Len(last.req) :
              Reported(last.req[i]) /\ last.req[i].status \notin DOMAIN LastTable)
          => last.status = 500

(* ------------------------------- C14 ------------------------------------ *)
\* The same rows in two stores.
SameMap(f, g) == DOMAIN f = DOMAIN g /\ \A k \in DOMAIN f : f[k] = g[k]
SameRows(a, b) ==
    /\ a.namespaces = b.namespaces
    /\ SameMap(a.projects, b.projects)
    /\ SameMap(a.repos, b.repos)

\* The operation recorded in `last`, run on `rows` with the payload and the
\* API responses it had.
Again(rows) ==
    CASE last.op = "update_github" ->
            update_github(rows, "github", last.req.namespace, last.req.data, last.req.repo_data)
      [] last.op = "update_travis" ->
            update_travis(rows, last.req.namespace, last.req.data, last.req.repo_data,
                          last.req.main_data)
      [] OTHER -> Done(rows)

\* C14: update_gitlab, update_github or update_travis run twice with the
\* same payload and the same API responses leaves the rows of the first run:
\* the second run creates no row and changes none.
C14_UpsertIdempotent ==
    /\ last.op \in {"update_github", "update_travis"} => SameRows(Again(db).db, db)
    /\ last.op = "get_projects_gitlab" =>
          \A i \in 1..Len(last.req.listing) :
              LET once == update_gitlab(last.pre, "gitlab", last.req.listing[i])
              IN  SameRows(update_gitlab(once.db, "gitlab", last.req.listing[i]).db, once.db)

\* update_travis has created the Repo of a project and completed it with
\* the answer of the forge.
C14_Witness ==
    /\ last.op = "update_travis"
    /\ last.status = 0
    /\ DOMAIN db.repos # DOMAIN last.pre.repos
    /\ \E k \in DOMAIN db.repos : db.repos[k].travis_id = 5 /\ db.repos[k].content = "v1"

(* ------------------------------- C15 ------------------------------------ *)
ReconciliationOps == {"get_projects_gitlab", "update_github", "update_travis", "api_update"}

\* C15: a Project whose main_namespace is set keeps it through every
\* operation of the reconciliation: update_gitlab and the orphan pass of
\* get_projects_gitlab, update_github, update_travis, Repo.api_update.
C15_MainNamespaceKept ==
    last.op \in ReconciliationOps =>
        \A p \in DOMAIN last.pre.projects :
            last.pre.projects[p].main_namespace # NoNamespace =>
                /\ p \in DOMAIN db.projects
                /\ db.projects[p].main_namespace = last.pre.projects[p].main_namespace

\* update_gitlab has created, from the payload of a repository that is not a
\* fork, the Repo of another namespace than the main one of its project.
C15_Witness ==
    /\ last.op = "get_projects_gitlab"
    /\ Len(last.req.listing) = 1
    /\ last.req.listing[1].forked_from = Null
    /\ Has(last.pre.projects, "my-proj")
    /\ last.pre.projects["my-proj"].main_namespace = "gepetto"
    /\ ~Has(last.pre.repos, <<"gitlab", "fork", "my-proj">>)
    /\ Has(db.repos, <<"gitlab", "fork", "my-proj">>)

(* ------------------------------- C16 ------------------------------------ *)
\* The project of the payloads had no main namespace before the operation.
WasOrphan ==
    /\ Has(last.pre.projects, "my-proj")
    /\ last.pre.projects["my-proj"].main_namespace = NoNamespace

\* update_github has created or matched the Repo of the group namespace for
\* a Project without main namespace, which then has that one.
GithubClaims ==
    (last.op = "update_github" /\ last.status = 0 /\ ~last.req.data.archived /\ WasOrphan) =>
        db.projects["my-proj"].main_namespace = last.req.namespace

\* The same for update_gitlab, on each payload of the listing.
GitlabClaims ==
    (last.op = "get_projects_gitlab" /\ WasOrphan) =>
        \A i \in 1..Len(last.req.listing) :
            LET data == last.req.listing[i]
                after == update_gitlab(last.pre, "gitlab", data).db
            IN  (~data.archived /\ data.default_branch # NoContent) =>
                    /\ Has(after.repos, <<"gitlab", data.namespace, "my-proj">>)
                    /\ after.projects["my-proj"].main_namespace = data.namespace

\* C16: when update_gitlab or update_github has created or matched a Repo
\* for a Project that had no main namespace, the main namespace of the
\* Project is the namespace of that Repo.
C16_MainNamespaceClaimed == GithubClaims /\ GitlabClaims

(* ------------------------------- C17 ------------------------------------ *)
\* The license of a project in a store, NoLicense when it has no row.
LicenseOf(rows, p) == IF Has(rows.projects, p) THEN rows.projects[p].license ELSE NoLicense

\* C17: update_gitlab and update_github keep the license a Project has;
\* update_github writes the license of a Project only when it has none, and
\* update_gitlab never writes it.
C17_LicenseKept ==
    /\ last.op \in {"get_projects_gitlab", "update_github"} =>
          \A p \in DOMAIN db.projects :
              LicenseOf(last.pre, p) # NoLicense => db.projects[p].license = LicenseOf(last.pre, p)
    /\ last.op = "get_projects_gitlab" =>
          \A p \in DOMAIN db.projects : db.projects[p].license = LicenseOf(last.pre, p)
    /\ last.op = "update_github" =>
          \A p \in DOMAIN db.projects :
              db.projects[p].license # LicenseOf(last.pre, p) =>
                  /\ LicenseOf(last.pre, p) = NoLicense
                  /\ last.req.repo_data # NoData
                  /\ db.projects[p].license = last.req.repo_data.license

\* update_github has read another license than the one of the Project: the
\* Repo follows the forge, the Project keeps its own.
C17_Witness ==
    /\ last.op = "update_github"
    /\ last.status = 0
    /\ LicenseOf(last.pre, "my-proj") = "MIT"
    /\ last.req.repo_data # NoData
    /\ last.req.repo_data.license = "GPL"
    /\ db.repos[<<"github", "gepetto", "my-proj">>].license = "GPL"
    /\ db.projects["my-proj"].license = "MIT"

(* ------------------------------- C18 ------------------------------------ *)
\* The Repo row on which the operation recorded in `last` has run
\* Repo.api_update with an archived payload: the one Repo.update names, or
\* the one update_travis has just created.  <<>> when there is none.
ArchivedRepo ==
    IF last.op = "api_update" /\ last.req.data # NoData /\ last.req.data.archived
    THEN last.req.key
    ELSE IF /\ last.op = "update_travis"
            /\ Has(last.pre.projects, "my-proj")
            /\ ~Has(last.pre.repos, <<"github", last.req.namespace, "my-proj">>)
            /\ last.req.repo_data # NoData
            /\ last.req.repo_data.archived
    THEN <<"github", last.req.namespace, "my-proj">>
    ELSE <<>>

\* C18: Repo.api_update with an archived payload marks the Repo archived,
\* marks the Project archived exactly when the Repo is its main Repo, and
\* updates no other field of the Repo or of the Project.
C18_ArchivedPropagates ==
    ArchivedRepo # <<>> =>
        LET key == ArchivedRepo
            p == key[3]
            before == IF Has(last.pre.repos, key) THEN last.pre.repos[key]
                      ELSE GetOrCreateRepo(last.pre, key, 0, last.req.data.id).repos[key]
        IN  /\ Has(db.repos, key)
            /\ db.repos[key] = [before EXCEPT !.archived = TRUE]
            /\ db.projects[p] =
                  [last.pre.projects[p] EXCEPT
                      !.archived = @ \/ key = MainRepoKey(last.pre, p)]

(* ------------------------------- C19 ------------------------------------ *)
\* C19: update_gitlab and update_github skip an archived payload: they
\* create no Project, Namespace or Repo row and change none.
C19_ArchivedSkipped ==
    /\ (last.op = "update_github" /\ last.req.data.archived) =>
          last.status = 0 /\ SameRows(db, last.pre)
    /\ last.op = "get_projects_gitlab" =>
          \A i \in 1..Len(last.req.listing) :
              last.req.listing[i].archived =>
                  LET r == update_gitlab(last.pre, "gitlab", last.req.listing[i])
                  IN  ~r.error /\ SameRows(r.db, last.pre)

\* update_github was given the archived payload of a repository that has
\* no Repo row, and there is still none.
C19_Witness ==
    /\ last.op = "update_github"
    /\ last.req.data.archived
    /\ ~Has(last.pre.repos, <<"github", "gepetto", "my-proj">>)
    /\ ~Has(db.repos, <<"github", "gepetto", "my-proj">>)

(* ------------------------------- C20 ------------------------------------ *)
\* C20: api_req issues its request once, and once more exactly when the
\* first attempt fails with a connection error: never more than two
\* attempts, the response of the first attempt is returned whatever its
\* status, and a connection error of the second attempt is raised to the
\* caller.
C20_RetriesOnce ==
    client.who # "none" =>
        /\ client.sent \in {1, 2}
        /\ client.sent = 2 <=> client.net[1].kind = "ConnectionError"
        /\ client.net[1].kind = "response" =>
              client.sent = 1 /\ client.outcome = client.net[1]
        /\ (client.sent = 2 /\ client.net[2].kind = "ConnectionError") =>
              client.outcome.kind = "ConnectionError"
        /\ client.outcome = client.net[client.sent]

\* The two attempts of a call have failed with a connection error.
C20_Witness ==
    /\ client.who = "Repo"
    /\ client.sent = 2
    /\ client.net[1].kind = "ConnectionError"
    /\ client.outcome.kind = "ConnectionError"

(* ------------------------------- C21 ------------------------------------ *)
\* A page whose records api_list yields: answered 200, with the key when
\* one is asked for.
Readable(resp) == resp.status = 200 /\ (pager.name # NoName => resp.keyed)

\* The records of the readable pages among those requested, in order.
RECURSIVE RecordsOf(_)
RecordsOf(pages) ==
    IF pages = <<>> THEN <<>>
    ELSE (IF Readable(pager.provider[Head(pages)])
          THEN pager.provider[Head(pages)].records ELSE <<>>)
         \o RecordsOf(Tail(pages))

\* C21: api_list starts at page 1 on every call, goes from a page to the
\* one the provider names as next, yields the records of the pages in that
\* order and ends at the page that names no next one; a page that is not
\* answered 200 yields nothing and ends the sequence without raising.
C21_Pagination ==
    pager.who # "none" =>
        LET asked == pager.requested
            n == Len(asked)
        IN  /\ n >= 1
            /\ asked[1] = 1
            /\ \A i \in 1..(n - 1) :
                  /\ Readable(pager.provider[asked[i]])
                  /\ pager.provider[asked[i]].next = asked[i + 1]
            /\ ~Readable(pager.provider[asked[n]]) \/ pager.provider[asked[n]].next = 0
            /\ pager.yielded = RecordsOf(asked)
            /\ pager.provider[asked[n]].status # 200 => ~pager.raised

\* A call has read two pages and ended on a third that was not answered
\* 200.
C21_Witness ==
    /\ pager.who = "Repo"
    /\ Len(pager.requested) = 3
    /\ pager.provider[pager.requested[3]].status = 404
    /\ pager.provider[pager.requested[3]].records # <<>>
    /\ Len(pager.yielded) = 4
    /\ ~pager.raised

(* ------------------------------- C22 ------------------------------------ *)
\* The calls of one method in the trace of the last operation of the cycle.
CallsOfCycle(call) == {i \in DOMAIN cycle.trace : cycle.trace[i] = call}

\* C22: Repo.fetch attempts the git fetch at most twice and returns success
\* exactly when the first or the second attempt succeeds; a Repo.update that
\* pulls and gets the failure deletes the Repo row and runs neither
\* api_update nor get_builds, and one whose fetch succeeds keeps the row.
C22_FetchTwiceThenDelete ==
    /\ cycle.op = "Repo.fetch" =>
          LET net == cycle.req.net
              n == Cardinality(CallsOfCycle(<<"Repo", "fetch">>))
          IN  /\ n \in {1, 2}
              /\ \A i \in 1..(n - 1) : net[i] # "ok"
              /\ ~cycle.raised => (cycle.ok <=> net[n] = "ok")
              /\ ~cycle.raised =>
                    (cycle.ok <=> (net[1] = "ok" \/ (net[1] = "GitCommandError" /\ net[2] = "ok")))
    /\ (cycle.op = "Repo.update" /\ ~cycle.req.orphan /\ cycle.req.pull) =>
          LET net == cycle.req.net
          IN  /\ net = <<"GitCommandError", "GitCommandError">> =>
                    /\ ~cycle.repo
                    /\ CallsOfCycle(<<"Repo", "delete">>) # {}
                    /\ CallsOfCycle(<<"Repo", "api_update">>) = {}
                    /\ CallsOfCycle(<<"Repo", "get_builds">>) = {}
              /\ (net[1] = "ok" \/ net = <<"GitCommandError", "ok">>) =>
                    cycle.repo /\ CallsOfCycle(<<"Repo", "delete">>) = {}

\* A Repo.update has pulled, failed twice to fetch and deleted the row.
C22_Witness ==
    /\ cycle.op = "Repo.update"
    /\ ~cycle.req.orphan
    /\ cycle.req.pull
    /\ cycle.req.net = <<"GitCommandError", "GitCommandError">>
    /\ Cardinality(CallsOfCycle(<<"Repo", "fetch">>)) = 2
    /\ ~cycle.repo

(* ------------------------------- C23 ------------------------------------ *)
\* The git backend has failed on an unknown ref during the last update.
UnknownRefFailure(io) ==
    IF io.main_branch
    THEN io.ahead = UnknownRevision \/ io.behind = UnknownRevision \/ io.tip = NoRef
    ELSE io.tip = NoRef

\* C23: a failure of the git backend on an unknown ref during Branch.update
\* is caught and sets deleted (the update ends by saving the row); the
\* update of a deleted Branch changes no field, so deleted never returns
\* to false.
C23_DeletedTerminal ==
    branchRow.io # <<>> =>
        /\ branchRow.pre.deleted => branchRow.row = branchRow.pre /\ branchRow.trace = <<>>
        /\ (~branchRow.pre.deleted /\ UnknownRefFailure(branchRow.io)) =>
              branchRow.row.deleted /\ branchRow.trace[Len(branchRow.trace)] = "save"
        /\ (~branchRow.pre.deleted /\ ~UnknownRefFailure(branchRow.io)) => ~branchRow.row.deleted


\* A Branch that was updated and then deleted has been given an update
\* whose git calls would all succeed.
C23_Witness ==
    /\ branchRow.pre.deleted
    /\ branchRow.pre.updated # NoDate
    /\ branchRow.io # <<>>
    /\ ~UnknownRefFailure(branchRow.io)
    /\ branchRow.io.tip # branchRow.pre.updated
    /\ branchRow.row.deleted

(* ------------------------------- C24 ------------------------------------ *)
\* C24: in a Project.update and in a Repo.update, update_tags is called
\* before any get_ahead or get_behind of a branch.
C24_TagsBeforeAheadBehind ==
    cycle.op \in {"Project.update", "Repo.update"} =>
        \A i \in DOMAIN cycle.trace :
            cycle.trace[i] \in {<<"Branch", "get_ahead">>, <<"Branch", "get_behind">>} =>
                \E j \in 1..(i - 1) : cycle.trace[j] = <<"Project", "update_tags">>

(* ------------------------------- C25 ------------------------------------ *)
\* The ancestors of a commit, itself included: the least set closed under
\* parents, computed level by level.
RECURSIVE Closure(_, _)
Closure(graph, commits) ==
    LET more == commits \cup UNION {graph[c] : c \in commits}
    IN  IF more = commits THEN commits ELSE Closure(graph, more)

OnlyOn(graph, x, y) == Closure(graph, {x}) \ Closure(graph, {y})

\* C25: get_ahead is the number of commits reachable from the branch and
\* not from the reference, get_behind the number reachable from the
\* reference and not from the branch, 0 when there is none; with 3 commits
\* only on the branch and 2 only on the reference they are 3 and 2.
C25_AheadBehind ==
    history.b # 0 =>
        /\ history.ahead = Cardinality(OnlyOn(history.graph, history.b, history.m))
        /\ history.behind = Cardinality(OnlyOn(history.graph, history.m, history.b))
        /\ (/\ Cardinality(OnlyOn(history.graph, history.b, history.m)) = 3
            /\ Cardinality(OnlyOn(history.graph, history.m, history.b)) = 2)
           => history.ahead = 3 /\ history.behind = 2

\* The counts are 3 and 2 for two branches that have a common ancestor.
C25_Witness ==
    /\ history.b # 0
    /\ history.ahead = 3
    /\ history.behind = 2
    /\ Closure(history.graph, {history.b}) \cap Closure(history.graph, {history.m}) # {}

(* ------------------------------- C26 ------------------------------------ *)
\* C26: whatever the operations of the reconciliation, there is at most one
\* Repo row per (forge, namespace, project); Project.main_repo returns the
\* row of (main_forge, main_namespace, project), the one there was before
\* the call or else a new one, and it is then the only one.
C26_OneRepoPerTriple ==
    /\ \A r1 \in repoTable.rows, r2 \in repoTable.rows : r1.key = r2.key => r1 = r2
    /\ (repoTable.op = "main_repo" /\ ~repoTable.raised) =>
          /\ {r.id : r \in {x \in repoTable.rows : x.key = repoTable.main}} = {repoTable.returned}
          /\ \A r \in repoTable.pre : r.key = repoTable.main => r.id = repoTable.returned

\* main_repo has returned the main row that was there, among other rows.
C26_Witness ==
    /\ repoTable.op = "main_repo"
    /\ ~repoTable.raised
    /\ \E r \in repoTable.pre : r.key = repoTable.main /\ r.id = repoTable.returned
    /\ Cardinality(repoTable.rows) >= 3

(* ------------------------------- C27 ------------------------------------ *)
\* C27: no run of Project.cmake or Project.ros creates a Dependency row
\* whose project is its library, whatever the manifest says.
C27_NoSelfLoop ==
    \A pair \in DOMAIN depTable.deps : pair[1] # pair[2]

(* ------------------------- orphan resolution --------------------------- *)
\* The rows after the listing of a get_projects_gitlab, before its orphan pass.
Listed == UpdateAllGitlab(last.pre, last.req.listing)

\* Claim C28: in get_projects_gitlab, a Project left with no main namespace
\* after the listing and with no GitLab Repo is left alone and nothing is
\* raised for it; one with a GitLab Repo gets update_gitlab re-run with the
\* answer of the request for the project whose id is that Repo's forked_from.
C28_OrphanResolution ==
    (last.op = "get_projects_gitlab" /\ ~Listed.error) =>
        \A orphan \in Orphans(Listed.db) :
            IF GitlabRepos(Listed.db, orphan) = {}
            THEN last.status = 0 /\ SameRows(db, Listed.db)
            ELSE \E k \in GitlabRepos(Listed.db, orphan) :
                    LET rerun == update_gitlab(Listed.db, "gitlab",
                                               ApiProject(last.req.parent, Listed.db.repos[k].forked_from))
                    IN  /\ SameRows(db, rerun.db)
                        /\ (last.status = 500) <=> rerun.error

\* An orphan with a GitLab fork Repo was given its parent's namespace.
C28_Witness ==
    /\ last.op = "get_projects_gitlab"
    /\ ~Listed.error
    /\ \E orphan \in Orphans(Listed.db) :
          /\ \E k \in GitlabRepos(Listed.db, orphan) : Listed.db.repos[k].forked_from = 1
          /\ last.req.parent # NoData
          /\ ~last.req.parent.archived
          /\ db.projects[orphan].main_namespace = "gepetto"
          /\ Has(db.repos, <<"gitlab", "gepetto", orphan>>)

\* An orphan with no GitLab Repo went through the orphan pass.
C28_BareOrphan ==
    /\ last.op = "get_projects_gitlab"
    /\ ~Listed.error
    /\ \E orphan \in Orphans(Listed.db) : GitlabRepos(Listed.db, orphan) = {}
(* --------------------------- unhandled events --------------------------- *)
\* The last request passed the source verification of its endpoint.
VerifiedDelivery ==
    \/ /\ last.op = "webhook"
       /\ last.req.fwd # Missing
       /\ FromGithub(last.req)
       /\ last.req.sig # Missing
       /\ last.req.sig[1] = <<"sha1", HmacSha1(GITHUB_WEBHOOK_KEY, last.req.body)>>
    \/ /\ last.op = "gl_webhook"
       /\ last.req.fwd # Missing
       /\ InNetwork(last.req.fwd[1], LaasNetwork)
       /\ last.req.token = Present(GITLAB_WEBHOOK_KEY)

\* The event header of the last request names a kind its endpoint does not handle.
UnhandledEvent ==
    /\ last.req.event # Missing
    /\ \/ last.op = "webhook" /\ last.req.event[1] \notin {"ping", "push", "check_suite", "pull_request"}
       \/ last.op = "gl_webhook" /\ last.req.event[1] \notin {"ping", "Pipeline Hook"}

\* Claim C29: a verified webhook request whose event header names a kind that
\* is not handled is answered with a not-found response (404), and no handler
\* runs: the mirror and the check-suite rows are as they were.
C29_UnhandledNotFound ==
    (VerifiedDelivery /\ UnhandledEvent) =>
        /\ last.status = 404
        /\ last.handler = "none"
        /\ last.calls = <<>>
        /\ Snapshot = last.pre

\* The part of C29 that the endpoints keep: no handler runs, nothing changes.
C29_UnhandledRunsNothing ==
    (VerifiedDelivery /\ UnhandledEvent) =>
        /\ last.status = 403
        /\ last.handler = "none"
        /\ last.calls = <<>>
        /\ Snapshot = last.pre

\* Both endpoints have answered a verified request of an unhandled kind.
C29_Reached == VerifiedDelivery /\ UnhandledEvent /\ last.op = "gl_webhook"
(* ----------------------------- check suites ----------------------------- *)
\* Claim C30: a check_suite event for the id X, delivered any number of times,
\* leaves the row of X recorded (the rows are keyed by the id, so there is one)
\* and changes nothing else: the other check-suite rows, the mirror and the
\* git calls are untouched, and a repeated delivery changes nothing at all.
C30_CheckSuiteIdempotent ==
    (last.op = "webhook" /\ last.handler = "check_suite") =>
        LET X == last.req.body.id
        IN  /\ X \in checkSuites
            /\ checkSuites = last.pre.suites \cup {X}
            /\ Cardinality(checkSuites) = Cardinality(last.pre.suites \ {X}) + 1
            /\ mirror = last.pre.mirror
            /\ last.calls = <<>>
            /\ last.status = 200
            /\ X \in last.pre.suites => Snapshot = last.pre

\* The check suite 41 is delivered again, with the check suite 42 recorded too.
C30_Witness ==
    /\ last.op = "webhook"
    /\ last.handler = "check_suite"
    /\ last.req.body.id = 41
    /\ last.pre.suites = {41, 42}
    /\ checkSuites = {41, 42}
(* ------------------------------ names ---------------------------------- *)
\* Claim C31: normalization is idempotent, so a Project saved any number of
\* times bears the name its first save gave it, and the normalized form of
\* the name it was given keeps matching the stored name.
C31_NormalizeIdempotent ==
    /\ \A x \in RawNames : normalize(normalize(x)) = normalize(x)
    /\ named.saves >= 1 =>
          /\ named.name = named.first
          /\ named.name = normalize(named.given)
          /\ normalize(named.name) = named.name

\* A name with disallowed characters has been saved more than once.
C31_Witness ==
    /\ named.saves >= 2
    /\ named.given = <<"a", "_", "-">>
    /\ named.name = <<"a">>
(* ------------------------- the order of the checks ---------------------- *)
\* The checks of webhook on a request, each as if it stood alone.
AddressPasses(req) == \E net \in GithubHooks : InNetwork(req.fwd[1], net)
SignaturePresent(req) == req.sig # Missing
AlgorithmPasses(req) == req.sig[1][1] = "sha1"
DigestPasses(req) == req.sig[1][2] = HmacSha1(GITHUB_WEBHOOK_KEY, req.body)

\* The status that the first failing check gives, 0 when every check passes.
FirstFailure(req) ==
    IF ~AddressPasses(req) THEN 302
    ELSE IF ~SignaturePresent(req) THEN 302
    ELSE IF ~AlgorithmPasses(req) THEN 501
    ELSE IF ~DigestPasses(req) THEN 403
    ELSE 0

\* Claim C32: the GitHub endpoint checks the address, the presence of the
\* signature, its algorithm and its digest in that order, and the first check
\* that fails gives the response (302, 302, 501, 403) whatever the later
\* checks would say; the event header plays no part until all have passed.
C32_FirstFailingCheck ==
    (/\ last.op = "webhook"
     /\ last.req.fwd # Missing
     /\ last.req.sig # Missing => Len(last.req.sig[1]) = 2
     /\ FirstFailure(last.req) # 0)
    => /\ last.status = FirstFailure(last.req)
       /\ last.handler = "none"
       /\ \A event \in GithubEventHeaders :
             LET o == webhook([last.req EXCEPT !.event = event], PlainIO)
             IN  o.status = last.status /\ o.handler = "none"

\* A request from a hooks address whose signature is neither sha1 nor made
\* with the key: the algorithm answers, not the digest.
C32_Witness ==
    /\ last.op = "webhook"
    /\ last.req.fwd = Present(9)
    /\ last.req.sig = Present(<<"md5", HmacSha1("guess", last.req.body)>>)
    /\ last.req.event = Present("push")
    /\ last.status = 501
(* --------------------------- malformed names ---------------------------- *)
\* The names the last call considered that lack the two prefix components.
MalformedConsidered == {name \in branchNames.considered : Len(name) < 3}

\* Claim C33 (as claimed): every name without the two prefix components that
\* update_branches meets is reported and none gets a row, and Branch.git
\* creates no local branch from such a name.
C33_MalformedReported ==
    /\ branchNames.op = "update_branches" =>
          \A name \in MalformedConsidered :
              name \in branchNames.reported /\ name \notin branchNames.branches
    /\ branchNames.op = "git" =>
          \A name \in MalformedConsidered : name \notin branchNames.created

\* Claim C33 (amended): among the names update_branches considers, one
\* without the two prefix components gets no Branch row and no Repo row, and
\* is reported unless it is the local branch master, which is passed over
\* without a report; Branch.git raises for such a name that has no local
\* branch and creates no local branch from it.
C33_MalformedReportedButMaster ==
    /\ branchNames.op = "update_branches" =>
          /\ ~branchNames.raised
          /\ \A name \in MalformedConsidered :
                /\ name \notin branchNames.branches
                /\ name \notin branchNames.created
                /\ name \in branchNames.reported <=> name # <<"master">>
          /\ \A name \in branchNames.reported : Len(name) < 3
    /\ branchNames.op = "git" =>
          \A name \in MalformedConsidered :
              /\ name \notin branchNames.created
              /\ name \notin branchNames.heads <=> branchNames.raised

\* A listing with the local branches master and devel went through
\* update_branches: devel was reported, master was not.
C33_Witness ==
    /\ branchNames.op = "update_branches"
    /\ branchNames.considered = {<<"master">>, <<"devel">>}
    /\ branchNames.reported = {<<"devel">>}
(* ---------------------------- linked rows ------------------------------- *)
\* Claim C34: from an empty store, after any sequence of get_contributor
\* calls every name row and every mail row is linked to a Contributor that
\* exists (no null link, no link to a deleted row), and the call returns a
\* Contributor that exists.
C34_RowsLinked ==
    /\ Null \notin contributors
    /\ \A n \in DOMAIN cnames : cnames[n].contributor \in contributors
    /\ \A m \in DOMAIN cmails : cmails[m].contributor \in contributors
    /\ LastResolve => last.status \in contributors

\* A call has merged two Contributors, and rows of other calls were moved.
C34_Witness ==
    /\ FoundTwoContributors
    /\ ~invalid_mail(last.req.mail)
    /\ contributors # last.pre.contributors
    /\ Cardinality(DOMAIN cnames) >= 2
    /\ Cardinality(DOMAIN cmails) >= 2
(* ------------------------ projects through a merge ---------------------- *)
\* The last line of a shortlog made get_contributor merge two Contributors.
LastMerged ==
    /\ last.op = "contributors"
    /\ Has(last.pre.store.cnames, last.req.name)
    /\ Has(last.pre.store.cmails, last.req.mail)
    /\ last.pre.store.contributors # contributors

\* Claim C35: after a merge the surviving Contributor is linked to every
\* Project that either of the two merged Contributors was linked to.
C35_MergeKeepsProjects ==
    LastMerged =>
        LET c1 == last.pre.store.cnames[last.req.name].contributor
            c2 == last.pre.store.cmails[last.req.mail].contributor
        IN  \A l \in last.pre.links :
                l[1] \in {c1, c2} => <<last.status, l[2]>> \in links
(* --------------------------- interleaved calls -------------------------- *)
\* Both calls have returned.
BothReturned == \A p \in Callers : race.calls[p].pc = "done"

\* Claim C36: when two get_contributor calls for the same pair interleave,
\* one datastore operation at a time, both return a Contributor and the name
\* row and the mail row end up linked to the same Contributor, which exists
\* (for a mail that is not classified invalid: an invalid mail keeps its rows
\* apart in a single call already).
C36_InterleavedCallsAgree ==
    (BothReturned /\ ~invalid_mail(race.mail)) =>
        /\ \A p \in Callers : race.calls[p].ret # Null /\ ~race.calls[p].raised
        /\ race.store.cnames[race.name].contributor = race.store.cmails[race.mail].contributor
        /\ race.store.cnames[race.name].contributor \in race.store.contributors

\* The same for two calls of which one returns before the other begins.
C36_SerialCallsAgree ==
    (BothReturned /\ ~invalid_mail(race.mail) /\ ~race.overlapped) =>
        /\ \A p \in Callers : race.calls[p].ret # Null /\ ~race.calls[p].raised
        /\ race.store.cnames[race.name].contributor = race.store.cmails[race.mail].contributor
        /\ race.store.cnames[race.name].contributor \in race.store.contributors

\* The claim on an empty store, where no earlier call plays a part.
C36_InterleavedOnEmptyStore == race.prior = 0 => C36_InterleavedCallsAgree
(* --------------------------- builds of a pass --------------------------- *)
\* The status the listing of the last pass reports for the build `id`: that
\* of its last entry on a branch.
ReportedIds == {last.req[i].id : i \in {j \in 1..Len(last.req) : last.req[j].ref = BranchRef}}
ReportedStatus(id) ==
    LET at == {i \in 1..Len(last.req) : last.req[i].ref = BranchRef /\ last.req[i].id = id}
    IN  last.req[CHOOSE i \in at : \A j \in at : j <= i].status

\* Claim C37: after a pass of get_builds over a listing, of a GitLab repo or
\* of a GitHub repo with Travis, every build the listing reports has its one
\* CIBuild row, whose passed is what the table of the provider gives for the
\* status in that listing, also when an earlier pass recorded another status.
C37_BuildsFollowListing ==
    (last.op \in {"get_builds_gitlab", "get_builds_github"} /\ last.status = 0) =>
        \A id \in ReportedIds :
            /\ Has(ci.builds, id)
            /\ ci.builds[id] = IF last.op = "get_builds_gitlab"
                               THEN GITLAB_STATUS[ReportedStatus(id)]
                               ELSE TRAVIS_STATE[ReportedStatus(id)]

\* The part of C37 that the GitLab pass keeps.
C37_GitlabBuildsFollowListing ==
    (last.op = "get_builds_gitlab" /\ last.status = 0) =>
        \A id \in ReportedIds :
            Has(ci.builds, id) /\ ci.builds[id] = GITLAB_STATUS[ReportedStatus(id)]
(* ------------------- deletion without the tracking ref ------------------ *)
\* Claim C38: a push with the zero SHA for refs/heads/R, when the fetch has
\* left the GitHub remote without a ref named R, still deletes the local
\* branches github/ns/R, gitlab/ns/R and R and issues the DELETE to GitLab:
\* the handler does not fail before the deletion.
C38_DeleteWithoutTrackingRef ==
    (/\ LastPush
     /\ last.req.body.after = ZeroSha
     /\ Fetched(GhRemote)
     /\ ~Has(mirror.refs, <<GhRemote, LastRef>>))
    => /\ last.status # 500
       /\ \A name \in ThreeHeads : ~Has(mirror.heads, name)
       /\ CallsOf("api_delete") # {}
(* ------------------------ orphans without a parent ---------------------- *)
\* What the request for the parent of the GitLab Repo `k` is answered.
ParentAnswer(k) == ApiProject(last.req.parent, Listed.db.repos[k].forked_from)

\* Claim C39: in the orphan pass of get_projects_gitlab, an orphan whose
\* parent request is not answered with a 200, or whose GitLab Repo has no
\* forked_from id, is skipped: nothing is raised and no row changes for it.
C39_ParentlessOrphanSkipped ==
    (/\ last.op = "get_projects_gitlab"
     /\ ~Listed.error
     /\ \E orphan \in Orphans(Listed.db) :
           \E k \in GitlabRepos(Listed.db, orphan) : ParentAnswer(k) = NoData)
    => /\ last.status = 0
       /\ SameRows(db, Listed.db)

\* The part of C39 that holds: such an orphan changes no row.
C39_ParentlessOrphanChangesNothing ==
    (/\ last.op = "get_projects_gitlab"
     /\ ~Listed.error
     /\ \E orphan \in Orphans(Listed.db) :
           \E k \in GitlabRepos(Listed.db, orphan) : ParentAnswer(k) = NoData)
    => /\ last.status = 500
       /\ SameRows(db, Listed.db)
(* ------------------------------ termination ----------------------------- *)
\* Claim C40: ordered_projects terminates for every table of dependencies:
\* a call that has begun leaves its loop, each round ordering at least one
\* of the projects that remain.
C40_Terminates == (ordering.pc = "loop") ~> (ordering.pc = "done")

\* The same as a property of each round: while projects remain, the next
\* round orders one of them.
C40_EveryRoundProgresses ==
    (ordering.pc = "loop" /\ ordering.rest # {}) =>
        NewRet(ordering.table, ordering.ret, ordering.rest) # {}

\* The rounds do end on the tables where no project that remains depends,
\* directly or through others that remain, on itself or on an archived library.
C40_RoundsBounded == ordering.rounds <= Cardinality(OrderProjects)
====
